---- MODULE Spec2Model ----
(***************************************************************************)
(* A model of GOATCLAW's orchestration substrate: the event bus            *)
(* (goatclaw/core/event_bus.py), the message broker behind its durable     *)
(* mode (goatclaw/message_broker.py), the task queue and the worker        *)
(* (goatclaw/task_queue.py, goatclaw/worker.py), the orchestrator's        *)
(* execution modes (goatclaw/orchestrator.py) and the handler runtime      *)
(* with its circuit breaker (goatclaw/agents/base_agent.py).               *)
(*                                                                         *)
(* Strings whose structure the code inspects (event types, subscription    *)
(* patterns) are sequences of one-character strings, so that endswith,     *)
(* startswith and slicing are computed and not assumed.                    *)
(***************************************************************************)
EXTENDS Integers, Sequences, FiniteSets, TLC

VARIABLES
    \* ---- event bus (EventBus.__init__) ----
    now,            \* datetime.utcnow(), in whole seconds
    ev,             \* the Event objects constructed so far, by object identity
    subscribers,    \* _subscribers: pattern -> list of handlers
    queue,          \* _priority_queue: entries (-priority, counter, event)
    event_counter,  \* _event_counter
    dlq,            \* _dead_letter_queue
    history,        \* _event_history
    hq,             \* max_history of the deque, and the last get_history or
                    \* replay_events call (observation)
    error_count,    \* _error_count
    pc,             \* position of the _process_events task
    cur,            \* the entry _process_events took from the queue
    last,           \* record of the last _dispatch_event call (observation)
    waiter,         \* the caller of publish_and_wait / wait_for_event and its future
    \* ---- message broker behind the durable bus ----
    stream,         \* the Redis stream: entries by id
    delivered,      \* entries handed to this consumer by XREADGROUP
    acked,          \* entries acknowledged with XACK, with the number of XACKs
    processed,      \* the processed:<event_id> keys (or _processed_ids)
    memq,           \* MessageBroker._memory_queue
    persist,        \* EventBus._enable_persistence
    redisUp,        \* MessageBroker.redis is not None
    invoked,        \* observation: handler invocations per (handler, event_id)
    \* ---- task queue and worker ----
    tq_redis,       \* TaskQueue.redis is not None
    tq_pending,     \* the list goatclaw_task_queue, head (left) first
    tq_processing,  \* the list goatclaw_task_processing, head (left) first
    tq_memory,      \* TaskQueue._memory_queue
    wk,             \* the Worker: position of its run loop and the task it holds
    wk_results,     \* the task.completed / task.failed events workers published
    tq_obs,         \* observation: payloads popped so far, and the last pop
    \* ---- orchestrator (one process_goal call) ----
    mode,                   \* task_graph.execution_mode
    nodes,                  \* task_graph.nodes: node_id -> TaskNode
    max_parallel_tasks,     \* task_graph.max_parallel_tasks
    max_credits,            \* config["max_credits"]
    max_queue_size,         \* config["max_queue_size"]
    opc,                    \* position of the _execute_* coroutine
    completed_nodes,        \* completed_nodes
    ready_nodes,            \* ready_nodes of the current round
    exec_tasks,             \* the _execute_node calls of the current round
    errors,                 \* errors
    task_results,           \* task_results of _execute_distributed
    total_credits_used,     \* total_credits_used
    final_status,           \* result["status"]
    pg,                     \* process_goal: the account's tier and the graph.*
                            \* events published, in order
    \* ---- handler runtime (one agent, agents/base_agent.py) ----
    cb,             \* BaseAgent._circuit_breaker
    ar,             \* the _execute_node call that runs a node on the agent
    \* ---- SecurityAgent (agents/security_agent.py) ----
    rl              \* _max_requests_per_hour, _blocked_ips and _token_buckets
                    \* for one identifier, and the calls made so far

busVars == <<now, ev, subscribers, queue, event_counter, dlq, history, hq,
             error_count, pc, cur, last, waiter>>
brokerVars == <<stream, delivered, acked, processed, memq, persist, redisUp,
                invoked>>
tqVars == <<tq_redis, tq_pending, tq_processing, tq_memory, wk, wk_results,
            tq_obs>>
orchVars == <<mode, nodes, max_parallel_tasks, max_credits, max_queue_size, opc,
              completed_nodes, ready_nodes, exec_tasks, errors, task_results,
              total_credits_used, final_status, pg>>
agentVars == <<cb, ar, rl>>
vars == <<busVars, brokerVars, tqVars, orchVars, agentVars>>

(***************************************************************************)
(* Bounds of the model.                                                    *)
(***************************************************************************)
MaxEvents == 2      \* Event objects constructed in one behaviour
MaxTime == 2        \* the clock stops advancing here
MaxSubs == 2        \* subscribe calls by the application in one behaviour
MaxStream == 2      \* entries other producers add to the stream

(***************************************************************************)
(* Program constants.                                                      *)
(***************************************************************************)
DefaultTtl == 3600          \* Event.ttl_seconds
DefaultMaxRetries == 3      \* Event.max_retries
DeadLetterMaxLen == 1000    \* deque(maxlen=1000)
MaxHistory == 10000         \* EventBus(max_history=10000)

None == "<None>"            \* Python's None
StrNone == "None"           \* str(None), a string like any other

(***************************************************************************)
(* Strings as character sequences.                                         *)
(***************************************************************************)
EndsWith(s, suffix) ==
    /\ Len(s) >= Len(suffix)
    /\ SubSeq(s, Len(s) - Len(suffix) + 1, Len(s)) = suffix

StartsWith(s, prefix) ==
    /\ Len(s) >= Len(prefix)
    /\ SubSeq(s, 1, Len(prefix)) = prefix

\* s[:-2]
DropLast2(s) == SubSeq(s, 1, Len(s) - 2)

DotStar == <<".", "*">>
Star == <<"*">>
ReplySuffix == <<".", "r", "e", "p", "l", "y">>

\* Event types and subscription patterns the model draws from.
TypeTS == <<"t", ".", "s">>     \* such as "task.started"
TypeTX == <<"t", "x">>          \* starts with "t" but not with "t."
TypeO == <<"o">>                \* such as "other"
TypeP == <<"p">>                \* a request type, such as "ping"
TypePReply == TypeP \o ReplySuffix
PatT == <<"t", ".", "*">>       \* such as "task.*"

\* The order in which the model walks the keys of _subscribers (the dict's
\* insertion order in the code; the order only permutes the handler list).
PatternOrder == <<TypeTS, TypeTX, TypeO, PatT, Star, TypePReply>>
Patterns == {PatternOrder[i] : i \in 1..Len(PatternOrder)}

\* Application handlers, and the closures publish_and_wait and
\* wait_for_event subscribe (response_handler, handler).
AppHandlers == {"h1", "h2"}
ResponseHandler == "response_handler"
WaitHandler == "handler"
Handlers == AppHandlers \cup {ResponseHandler, WaitHandler}

(***************************************************************************)
(* Event (core/structs.py).                                                *)
(***************************************************************************)
NoAck == <<>>               \* ack_id is None; <<i>> is the stream id of entry i

Event(id, type, prio, ts, ttl, maxr, corr, dest, ack) ==
    [event_id |-> id, event_type |-> type, priority |-> prio,
     timestamp |-> ts, ttl_seconds |-> ttl, retry_count |-> 0,
     max_retries |-> maxr, correlation_id |-> corr, destination |-> dest,
     ack_id |-> ack]

\* Event.is_expired at time t
IsExpired(e, t) == (t - e.timestamp) > e.ttl_seconds

\* deque(maxlen=n).append(x)
DequeAppend(q, x, n) ==
    IF Len(q) >= n THEN Append(Tail(q), x) ELSE Append(q, x)

RECURSIVE DequeAppendTimes(_, _, _, _)
DequeAppendTimes(q, x, n, times) ==
    IF times = 0 THEN q
    ELSE DequeAppendTimes(DequeAppend(q, x, n), x, n, times - 1)

Count(s, x) == Cardinality({i \in 1..Len(s) : s[i] = x})

\* list.remove(x): the first occurrence goes
RemoveFirst(s, x) ==
    LET i == CHOOSE j \in 1..Len(s) :
                 s[j] = x /\ \A k \in 1..(j - 1) : s[k] # x
    IN SubSeq(s, 1, i - 1) \o SubSeq(s, i + 1, Len(s))

(***************************************************************************)
(* EventBus._get_matching_handlers and the destination filter of           *)
(* _dispatch_event.                                                        *)
(***************************************************************************)
RECURSIVE WildcardHandlers(_, _, _)
WildcardHandlers(subs, type, i) ==
    IF i > Len(PatternOrder) THEN <<>>
    ELSE LET p == PatternOrder[i]
             here == IF EndsWith(p, DotStar)
                     THEN IF StartsWith(type, DropLast2(p)) THEN subs[p] ELSE <<>>
                     ELSE IF p = Star THEN subs[p] ELSE <<>>
         IN here \o WildcardHandlers(subs, type, i + 1)

GetMatchingHandlers(subs, type) ==
    (IF type \in DOMAIN subs THEN subs[type] ELSE <<>>)
        \o WildcardHandlers(subs, type, 1)

\* if event.destination: handlers = [h for h in handlers if h.__name__ == destination]
FilterDestination(hs, dest) ==
    LET Named(h) == h = dest
    IN IF dest # None THEN SelectSeq(hs, Named) ELSE hs

(***************************************************************************)
(* The priority queue: asyncio.PriorityQueue of (-priority, counter,       *)
(* event) tuples; get() returns the smallest tuple.  The counter is        *)
(* unique, so the comparison never reaches the event.  kind records which  *)
(* put made the entry (an observation, not part of the tuple).             *)
(***************************************************************************)
TupleLess(a, b) == a.key < b.key \/ (a.key = b.key /\ a.ctr < b.ctr)

QueueGet(q) == CHOOSE a \in q : \A b \in q \ {a} : TupleLess(a, b)

\* the queue entry of publish without the sign change
C2_PublishEntryUnsigned(e, ctr, o) ==
    [key |-> e.priority, ctr |-> ctr, obj |-> o, kind |-> "publish"]

\* publish: (-event.priority, counter, event)
PublishEntry(e, ctr, o) ==
    [key |-> -e.priority, ctr |-> ctr, obj |-> o, kind |-> "publish"]

\* the retry branch: (-(event.priority - 1), counter, event)
RetryEntry(e, ctr, o) ==
    [key |-> -(e.priority - 1), ctr |-> ctr, obj |-> o, kind |-> "retry"]

(***************************************************************************)
(* The loop over the gathered results in _dispatch_event: one pass of the  *)
(* retry branch for every handler that raised.                             *)
(***************************************************************************)
RECURSIVE RetryLoop(_, _, _, _)
RetryLoop(k, e, o, st) ==
    IF k = 0 THEN st
    ELSE IF st.rc < e.max_retries
         THEN RetryLoop(k - 1, e, o,
                  [st EXCEPT !.rc = @ + 1, !.ctr = @ + 1,
                             !.puts = @ \cup {RetryEntry(e, st.ctr + 1, o)}])
         ELSE RetryLoop(k - 1, e, o, [st EXCEPT !.dead = @ + 1])

\* asyncio.gather(*tasks, return_exceptions=True): every handler in the
\* list is called, whichever of them raise (raising: the indices that do).
InvokedHandlers(hs, raising) == hs

\* the processor ends with the first dispatch in which a handler raised
C6_ProcessorDiesOnError(k) == k = 0

\* _process_events: "except Exception" keeps the loop alive after a dispatch
\* in which k handlers raised.
ProcessorSurvives(k) == TRUE

(***************************************************************************)
(* MessageBroker (message_broker.py).                                      *)
(***************************************************************************)
\* Event.to_dict: ttl_seconds, retry_count, max_retries, reply_to and ack_id
\* are not part of the dict.  payload stands for the mapping it carries.
ToDict(e) ==
    [event_id |-> e.event_id, event_type |-> e.event_type,
     destination |-> e.destination, payload |-> "dict",
     timestamp |-> e.timestamp, priority |-> e.priority,
     correlation_id |-> e.correlation_id]

\* isinstance(v, (dict, list, tuple)) holds of these fields' values
ContainerFields == {"payload", "headers"}

\* MessageBroker.publish with a connection: the entry comprehension calls
\* is_dataclass(v) for every value that is no dict, list or tuple, and the
\* name is_dataclass is bound only inside the nested _serialize, so the call
\* raises NameError before XADD.
BrokerPublishRaises(d) == redisUp /\ (DOMAIN d) \ ContainerFields # {}

\* _poll_redis: Event(**data), the fields to_dict left out take their defaults
FromData(d, ackId) ==
    Event(d.event_id, d.event_type, d.priority, d.timestamp, DefaultTtl,
          DefaultMaxRetries, d.correlation_id, d.destination, ackId)

\* MessageBroker.ack: XACK when connected, nothing otherwise
BrokerAck(a, id) ==
    IF redisUp
    THEN [a EXCEPT ![id[1]] = IF @ < 2 THEN @ + 1 ELSE @]
    ELSE a

(***************************************************************************)
(* EventBus.publish (the body after the event was constructed; ev' is the  *)
(* caller's).  No interceptors or filters are registered.                  *)
(***************************************************************************)
LocalPut(e, o) ==
    /\ event_counter' = event_counter + 1
    /\ queue' = queue \cup {PublishEntry(e, event_counter + 1, o)}

Publish(e, o) ==
    IF IsExpired(e, now)
    THEN /\ dlq' = DequeAppend(dlq, o, DeadLetterMaxLen)
         /\ UNCHANGED <<history, hq, queue, event_counter, memq, stream>>
    ELSE /\ history' = DequeAppend(history, o, hq.max_history)
         /\ UNCHANGED hq
         /\ UNCHANGED dlq
         /\ IF persist
            THEN IF BrokerPublishRaises(ToDict(e))
                 THEN LocalPut(e, o) /\ UNCHANGED <<memq, stream>>
                 ELSE IF redisUp
                      THEN /\ stream' = Append(stream, ToDict(e))
                           /\ UNCHANGED <<memq, queue, event_counter>>
                      ELSE /\ memq' = Append(memq, ToDict(e))
                           /\ UNCHANGED <<stream, queue, event_counter>>
            ELSE LocalPut(e, o) /\ UNCHANGED <<memq, stream>>

\* A caller constructs Event(...) and publishes it.
PublishCore(e) ==
    /\ ev' = Append(ev, e)
    /\ Publish(e, Len(ev) + 1)
    /\ UNCHANGED <<now, error_count, pc, cur, last,
                   delivered, acked, processed, persist, redisUp, invoked>>
    /\ UNCHANGED <<tqVars, orchVars, agentVars>>

PublishNew(e) == PublishCore(e) /\ UNCHANGED <<subscribers, waiter>>

(***************************************************************************)
(* EventBus.subscribe / unsubscribe, called by the application.            *)
(***************************************************************************)
TotalSubs == LET RECURSIVE Sum(_)
                 Sum(i) == IF i > Len(PatternOrder) THEN 0
                           ELSE Len(subscribers[PatternOrder[i]]) + Sum(i + 1)
             IN Sum(1)

SubscribeOp(subs, p, h) == [subs EXCEPT ![p] = Append(@, h)]

UnsubscribeOp(subs, p, h) ==
    IF p \in DOMAIN subs /\ Count(subs[p], h) > 0
    THEN [subs EXCEPT ![p] = RemoveFirst(@, h)]
    ELSE subs

Subscribe(p, h) ==
    /\ TotalSubs < MaxSubs
    /\ subscribers' = SubscribeOp(subscribers, p, h)
    /\ UNCHANGED <<now, ev, queue, event_counter, dlq, history, hq, error_count,
                   pc, cur, last, waiter, brokerVars>>
    /\ UNCHANGED <<tqVars, orchVars, agentVars>>

Unsubscribe(p, h) ==
    /\ Count(subscribers[p], h) > 0
    /\ subscribers' = UnsubscribeOp(subscribers, p, h)
    /\ UNCHANGED <<now, ev, queue, event_counter, dlq, history, hq, error_count,
                   pc, cur, last, waiter, brokerVars>>
    /\ UNCHANGED <<tqVars, orchVars, agentVars>>

\* Time passes.
Tick ==
    /\ now < MaxTime
    /\ now' = now + 1
    /\ UNCHANGED <<ev, subscribers, queue, event_counter, dlq, history, hq,
                   error_count, pc, cur, last, waiter, brokerVars>>
    /\ UNCHANGED <<tqVars, orchVars, agentVars>>

(***************************************************************************)
(* The closures of publish_and_wait (response_handler) and wait_for_event  *)
(* (handler, with no filter_func), called nResp and nWait times with event *)
(* object o.  Future.set_result raises InvalidStateError on a future that  *)
(* is done or cancelled; only handler tests future.done() first.           *)
(***************************************************************************)
HandlerEffect(w, e, o, nResp, nWait) ==
    LET resp == IF nResp > 0 /\ e.correlation_id = w.corr
                THEN IF w.fut = "pending"
                     THEN [w |-> [w EXCEPT !.fut = "result", !.result = o],
                           raises |-> nResp - 1]
                     ELSE [w |-> w, raises |-> nResp]
                ELSE [w |-> w, raises |-> 0]
        wait == IF nWait > 0 /\ resp.w.fut = "pending"
                THEN [resp.w EXCEPT !.fut = "result", !.result = o]
                ELSE resp.w
        \* observation: the first event the closure accepted as a match
        seen == IF wait.first = 0 /\ (nWait > 0 \/ (nResp > 0 /\ e.correlation_id = w.corr))
                THEN [wait EXCEPT !.first = o]
                ELSE wait
    IN [w |-> seen, raises |-> resp.raises]

\* observation: which (handler, event_id) pairs were invoked once, and twice
NoteInvoked(inv, called, id) ==
    LET hit == {h \in Handlers : Count(called, h) > 0}
        again == {h \in hit : Count(called, h) > 1 \/ <<h, id>> \in inv.once}
    IN [once |-> inv.once \cup {<<h, id>> : h \in hit},
        twice |-> inv.twice \cup {<<h, id>> : h \in again}]

NoEntry == [key |-> 0, ctr |-> 0, obj |-> 0, kind |-> "none"]
NoRegs == [h \in Handlers |-> {}]
NoCur == [entry |-> NoEntry, handlers |-> <<>>, nomatch |-> TRUE, regs |-> NoRegs,
          expired |-> FALSE]
NoLast == [obj |-> 0, entry |-> NoEntry, expired |-> FALSE,
           calls |-> [h \in Handlers |-> 0], regs |-> NoRegs, nomatch |-> TRUE,
           raised |-> 0, fut_raises |-> 0, puts |-> {}, dead |-> 0, rc0 |-> 0,
           rc1 |-> 0, acked |-> FALSE]

(***************************************************************************)
(* _process_events: take the smallest entry from the queue; _dispatch_event *)
(* computes the handler list in the same run of the task (before its first *)
(* await), the handlers run afterwards.                                    *)
(***************************************************************************)
ProcGet ==
    /\ pc = "idle"
    /\ queue # {}
    \* a waiter woken by set_result runs before the processor's next round
    /\ ~(waiter.st = "waiting" /\ waiter.fut = "result")
    /\ LET a == QueueGet(queue)
           e == ev[a.obj]
           matched == GetMatchingHandlers(subscribers, e.event_type)
       IN /\ queue' = queue \ {a}
          /\ cur' = [entry |-> a,
                     handlers |-> FilterDestination(matched, e.destination),
                     nomatch |-> matched = <<>>,
                     regs |-> [h \in Handlers |->
                                 {p \in Patterns : Count(subscribers[p], h) > 0}],
                     \* observation: the event's age exceeded its ttl when taken
                     expired |-> IsExpired(e, now)]
          /\ pc' = "dispatch"
    /\ UNCHANGED <<now, ev, subscribers, event_counter, dlq, history, hq,
                   error_count, last, waiter, brokerVars>>
    /\ UNCHANGED <<tqVars, orchVars, agentVars>>

ProcDispatch ==
    /\ pc = "dispatch"
    /\ LET o == cur.entry.obj
           e == ev[o]
           hs == cur.handlers
       IN \E raising \in SUBSET {i \in 1..Len(hs) : hs[i] \in AppHandlers} :
            LET called == InvokedHandlers(hs, raising)
                eff == HandlerEffect(waiter, e, o, Count(called, ResponseHandler),
                                     Count(called, WaitHandler))
                k == Cardinality({i \in raising : i <= Len(called)}) + eff.raises
                st == RetryLoop(k, e, o, [rc |-> e.retry_count, ctr |-> event_counter,
                                          puts |-> {}, dead |-> 0])
                \* "if not handlers: return" comes before the acknowledgement
                doAck == ~cur.nomatch /\ e.ack_id # NoAck /\ persist
            IN /\ ev' = [ev EXCEPT ![o].retry_count = st.rc]
               /\ queue' = queue \cup st.puts
               /\ event_counter' = st.ctr
               /\ dlq' = DequeAppendTimes(dlq, o, DeadLetterMaxLen, st.dead)
               /\ error_count' = error_count + k
               /\ acked' = IF doAck THEN BrokerAck(acked, e.ack_id) ELSE acked
               /\ waiter' = eff.w
               /\ invoked' = IF persist THEN NoteInvoked(invoked, called, e.event_id)
                             ELSE invoked
               /\ last' = [obj |-> o, entry |-> cur.entry,
                           expired |-> cur.expired,
                           calls |-> [h \in Handlers |-> Count(called, h)],
                           regs |-> cur.regs, nomatch |-> cur.nomatch,
                           raised |-> k, fut_raises |-> eff.raises,
                           puts |-> st.puts, dead |-> st.dead,
                           rc0 |-> e.retry_count, rc1 |-> st.rc,
                           acked |-> doAck /\ redisUp]
               /\ pc' = IF ProcessorSurvives(k) THEN "idle" ELSE "dead"
    /\ cur' = NoCur
    /\ UNCHANGED <<now, subscribers, history, hq, stream, delivered, processed,
                   memq, persist, redisUp>>
    /\ UNCHANGED <<tqVars, orchVars, agentVars>>

(***************************************************************************)
(* CircuitBreakerState (agents/base_agent.py) and the agent before any     *)
(* node is run on it.                                                      *)
(***************************************************************************)
DefaultFailureThreshold == 5    \* CircuitBreakerState.failure_threshold
DefaultTimeoutSeconds == 60     \* CircuitBreakerState.timeout_seconds
DefaultSuccessThreshold == 2    \* CircuitBreakerState.success_threshold

\* last_failure_time is Optional: <<>> for None, <<t>> for the time t
CircuitBreakerState(ft, ts, st) ==
    [failure_count |-> 0, last_failure_time |-> <<>>, state |-> "closed",
     failure_threshold |-> ft, timeout_seconds |-> ts, success_threshold |-> st,
     consecutive_successes |-> 0]

\* TaskNode with the fields the handler runtime reads; fails is the handler:
\* its body raises on its first fails calls for the node and returns after
AgentNode(req, maxr, f, rule) ==
    [status |-> "PENDING", retries |-> 0, max_retries |-> maxr,
     required_permissions |-> req, validation_rule |-> rule, fails |-> f]

\* no agent.run call has been made
NoCall ==
    [outcome |-> "none", before |-> "closed", cooled |-> FALSE, events |-> <<>>]

\* credits are counted in tenths: the balance after top_up(user_id, 10.0)
TopUpCredits == 100

\* no _execute_node call has been made; balance is the balance_credits of
\* the user's account
NoRun ==
    [pc |-> "idle", presented |-> 0, node |-> AgentNode({}, 0, 0, FALSE),
     scopes |-> {}, attempt |-> 0, runs |-> 0, body_calls |-> 0, delays |-> 0,
     hist |-> <<>>, err |-> "none", last |-> NoCall, ticks |-> 0,
     balance |-> TopUpCredits]

\* nothing has been stored for the graph
NoSnapshot == [status |-> "none", nodes |-> <<>>]

AgentFresh ==
    /\ cb = CircuitBreakerState(DefaultFailureThreshold, DefaultTimeoutSeconds,
                                DefaultSuccessThreshold)
    /\ ar = NoRun

\* config.get("max_requests_per_hour", 100)
DefaultMaxRequestsPerHour == 100

\* SecurityAgent(event_bus, {"max_requests_per_hour": n}) for a client whose
\* address is blocked (block_ip) or not: no bucket, no call yet
SecurityAgent(n, blocked) ==
    [max_requests_per_hour |-> n, blocked |-> blocked, bucket |-> <<>>,
     calls |-> 0, allowed |-> 0, ticks |-> 0,
     last |-> [outcome |-> "none", before |-> 0]]

SecurityFresh == rl = SecurityAgent(DefaultMaxRequestsPerHour, FALSE)


(***************************************************************************)
(* The task queue after TaskQueue(), the worker before run(), and the      *)
(* orchestrator with no process_goal call in progress.                     *)
(***************************************************************************)
NoTask == 0

QueueFresh ==
    /\ tq_pending = <<>>
    /\ tq_processing = <<>>
    /\ tq_memory = <<>>
    /\ wk = [pc |-> "idle", task |-> NoTask]
    /\ wk_results = <<>>
    /\ tq_obs = [popped |-> {}, lastpop |-> NoTask]

DefaultMaxCredits == 1000       \* config.get("max_credits", 1000.0)
DefaultMaxQueueSize == 100      \* config.get("max_queue_size", 100)

OrchIdle ==
    /\ mode = "none"
    /\ nodes = <<>>
    /\ max_parallel_tasks = 0
    /\ max_credits = DefaultMaxCredits
    /\ max_queue_size = DefaultMaxQueueSize
    /\ opc = "none"
    /\ completed_nodes = {}
    /\ ready_nodes = <<>>
    /\ exec_tasks = <<>>
    /\ errors = <<>>
    /\ task_results = <<>>
    /\ total_credits_used = 0
    /\ final_status = "none"
    /\ pg = [tier |-> "free", events |-> <<>>, status |-> "PENDING",
             stored |-> NoSnapshot]

\* The bus alone: no task queue connection, no graph.
NoQueueNoGraph ==
    tq_redis = FALSE /\ QueueFresh /\ OrchIdle /\ AgentFresh /\ SecurityFresh

(***************************************************************************)
(* The bus after EventBus() and start(), before any subscription.          *)
(***************************************************************************)
NoSubscribers == [p \in Patterns |-> <<>>]

NoWaiter == [st |-> "none", kind |-> "none", fut |-> "none", corr |-> None,
             pat |-> <<>>, result |-> 0, ret |-> 0, first |-> 0]

\* no get_history or replay_events call has been made
NoHistoryCall ==
    [op |-> "none", outcome |-> "none", returned |-> <<>>, arg |-> <<>>,
     before |-> <<>>]

\* EventBus(): max_history=10000
HistoryDefault ==
    hq = [max_history |-> MaxHistory, call |-> NoHistoryCall, replays |-> 0]

BusFresh ==
    /\ now = 0
    /\ ev = <<>>
    /\ queue = {}
    /\ event_counter = 0
    /\ dlq = <<>>
    /\ history = <<>>
    /\ error_count = 0
    /\ pc = "idle"
    /\ cur = NoCur
    /\ last = NoLast
    /\ waiter = NoWaiter
    /\ stream = <<>>
    /\ delivered = 0
    /\ acked = [i \in 1..MaxStream |-> 0]
    /\ processed = {}
    /\ memq = <<>>
    /\ invoked = [once |-> {}, twice |-> {}]

(***************************************************************************)
(* SpecBus: the local bus (enable_persistence=False) with its publishers   *)
(* and the processor.  The application subscribed its handlers to the one  *)
(* event type before the first publish, as the tests do.                   *)
(***************************************************************************)
BusTypes == {TypeTS}
BusPriorities == {1, 2}
BusMaxRetries == {0, 1}
BusSubscriptions == {<<>>, <<"h1">>, <<"h1", "h2">>}

BusInit ==
    /\ BusFresh
    /\ HistoryDefault
    /\ NoQueueNoGraph
    /\ persist = FALSE
    /\ redisUp = FALSE
    /\ \E hs \in BusSubscriptions :
          subscribers = [NoSubscribers EXCEPT ![TypeTS] = hs]

BusPublish ==
    \E t \in BusTypes, p \in BusPriorities, m \in BusMaxRetries :
        /\ Len(ev) < MaxEvents
        /\ PublishNew(Event(Len(ev) + 1, t, p, now, DefaultTtl, m, None, None, NoAck))

BusNext == BusPublish \/ ProcGet \/ ProcDispatch

SpecBus == BusInit /\ [][BusNext]_vars

\* The processor is an asyncio task of a running loop: it is scheduled
\* whenever it can take a step.
SpecBusFair == SpecBus /\ WF_vars(ProcGet) /\ WF_vars(ProcDispatch)

(***************************************************************************)
(* Properties of the local bus.                                            *)
(***************************************************************************)
\* The processor takes an entry from the queue in this step.
TakesEntry == pc = "idle" /\ pc' = "dispatch"

\* The priority an entry was queued with: event.priority for a publish,
\* event.priority - 1 for a retry re-enqueue.
QueuedPriority(a) ==
    IF a.kind = "retry" THEN ev[a.obj].priority - 1 ELSE ev[a.obj].priority

\* C2 as stated: of the events in the queue at the same time, the one taken
\* has the highest Event.priority, and of those with equal priority it is
\* the one published first (objects are numbered in publish order).
C2_PriorityThenPublishOrder ==
    [][TakesEntry =>
          \A b \in queue' :
              \/ ev[cur'.entry.obj].priority > ev[b.obj].priority
              \/ /\ ev[cur'.entry.obj].priority = ev[b.obj].priority
                 /\ cur'.entry.obj <= b.obj]_vars

\* C2, amended: of the entries in the queue at the same time, the one taken
\* has the highest queued priority (Event.priority, and one lower than
\* Event.priority for a retry re-enqueue), and of those with equal queued
\* priority it is the one that was enqueued first.
C2_QueuedPriorityThenEnqueueOrder ==
    [][TakesEntry =>
          \A b \in queue' :
              \/ QueuedPriority(cur'.entry) > QueuedPriority(b)
              \/ /\ QueuedPriority(cur'.entry) = QueuedPriority(b)
                 /\ cur'.entry.ctr < b.ctr]_vars

\* An entry was taken ahead of one enqueued before it, and ahead of a retry
\* re-enqueue of an event with the same Event.priority.
C2_Witness ==
    /\ pc = "dispatch"
    /\ \E b \in queue : b.ctr < cur.entry.ctr /\ b.key > cur.entry.key
    /\ \E b \in queue : /\ b.kind = "retry"
                        /\ ev[b.obj].priority = ev[cur.entry.obj].priority
                        /\ b.obj < cur.entry.obj

\* C5: a dispatch in which at least one handler raised re-enqueues the
\* event exactly once, one priority lower and with retry_count one higher,
\* when retry_count was below max_retries, and appends it to the dead
\* letter queue exactly once otherwise, however many handlers raised.
C5_OneOutcomePerDispatch ==
    last.raised > 0 =>
        IF last.rc0 < ev[last.obj].max_retries
        THEN /\ Cardinality(last.puts) = 1
             /\ \A a \in last.puts : a.key = -(ev[last.obj].priority - 1)
             /\ last.rc1 = last.rc0 + 1
             /\ last.dead = 0
        ELSE /\ last.puts = {}
             /\ last.rc1 = last.rc0
             /\ last.dead = 1

\* C6: when handlers raise, every handler matching the event was still
\* invoked and the processor is still running; every entry in the queue,
\* whenever it was enqueued, is eventually dispatched.
C6_Isolation ==
    /\ [](pc # "dead")
    /\ [](last.raised > 0 =>
            \A h \in AppHandlers :
                last.regs[h] # {} => last.calls[h] >= 1)
    /\ \A c \in 1..(2 * MaxEvents) :
          (\E a \in queue : a.ctr = c) ~> (last.entry.ctr = c)

\* An event published after a handler raised (it was enqueued after the
\* retry re-enqueue that is still waiting) was dispatched to the handlers,
\* and in another dispatch one of two handlers raised and both were called.
C6_Witness ==
    /\ last.entry.kind = "publish"
    /\ last.calls["h1"] = 1 /\ last.calls["h2"] = 1
    /\ error_count > 0
    /\ \E b \in queue : b.kind = "retry" /\ b.ctr < last.entry.ctr

(***************************************************************************)
(* SpecMatch: subscriptions under literal types, prefix patterns and "*",  *)
(* changing while events of several types, with and without a              *)
(* destination, are published and dispatched.  The application registers   *)
(* a handler at most once under one pattern.                               *)
(***************************************************************************)
MatchEvents == 1    \* events published in one behaviour of SpecMatch

MatchTypes == {TypeTS, TypeTX, TypeO}
MatchPatterns == {TypeTS, PatT, Star}
MatchDestinations == {None, "h1"}

MatchInit ==
    /\ BusFresh
    /\ HistoryDefault
    /\ NoQueueNoGraph
    /\ persist = FALSE
    /\ redisUp = FALSE
    /\ subscribers = NoSubscribers

MatchSubscribe ==
    \E p \in MatchPatterns, h \in AppHandlers :
        Count(subscribers[p], h) = 0 /\ Subscribe(p, h)

MatchUnsubscribe ==
    \E p \in MatchPatterns, h \in AppHandlers : Unsubscribe(p, h)

MatchPublish ==
    \E t \in MatchTypes, d \in MatchDestinations :
        /\ Len(ev) < MatchEvents
        /\ PublishNew(Event(Len(ev) + 1, t, 0, now, DefaultTtl, 0, None, d, NoAck))

MatchNext ==
    MatchSubscribe \/ MatchUnsubscribe \/ MatchPublish \/ ProcGet \/ ProcDispatch

SpecMatch == MatchInit /\ [][MatchNext]_vars

\* A pattern matches a type: the literal type, a "prefix.*" pattern whose
\* prefix (the pattern without ".*") the type starts with, or "*".
PatternMatches(p, type) ==
    \/ p = type
    \/ EndsWith(p, DotStar) /\ StartsWith(type, DropLast2(p))
    \/ p = Star

\* C3: in every dispatch a subscribed handler is invoked exactly once when
\* at least one pattern it is registered under matches the event type (and
\* the event's destination, when set, names it), and not at all otherwise,
\* also when it is registered under several matching patterns.
C3_InvokedOncePerMatch ==
    last.obj # 0 =>
        \A h \in AppHandlers :
            LET e == ev[last.obj]
                wanted == /\ \E p \in last.regs[h] : PatternMatches(p, e.event_type)
                          /\ e.destination \in {None, h}
            IN last.calls[h] = IF wanted THEN 1 ELSE 0

(***************************************************************************)
(* SpecTtl: events with a short or the default ttl, constructed now or     *)
(* earlier, published while time passes; one handler is subscribed and     *)
(* may raise, so that events also wait in the queue for a retry.           *)
(***************************************************************************)
TtlValues == {1, DefaultTtl}

TtlInit ==
    /\ BusFresh
    /\ HistoryDefault
    /\ NoQueueNoGraph
    /\ persist = FALSE
    /\ redisUp = FALSE
    /\ subscribers = [NoSubscribers EXCEPT ![TypeTS] = <<"h1">>]

TtlPublish ==
    \E ts \in 0..now, ttl \in TtlValues :
        /\ Len(ev) < MaxEvents
        /\ PublishNew(Event(Len(ev) + 1, TypeTS, 1, ts, ttl, 1, None, None, NoAck))

TtlNext == TtlPublish \/ Tick \/ ProcGet \/ ProcDispatch

SpecTtl == TtlInit /\ [][TtlNext]_vars

\* C4: an event whose age exceeds its ttl_seconds is never passed to a
\* subscriber and ends in the dead letter queue: an event that was expired
\* when the processor took it from the queue was passed to no handler and
\* is in the dead letter queue, and an event publish refused (it is not in
\* the history) is in the dead letter queue.
C4_ExpiredNeverDelivered ==
    /\ (last.obj # 0 /\ last.expired) =>
           /\ \A h \in Handlers : last.calls[h] = 0
           /\ Count(dlq, last.obj) > 0
    /\ \A o \in 1..Len(ev) : Count(history, o) = 0 => Count(dlq, o) > 0

(***************************************************************************)
(* publish_and_wait and wait_for_event.  The caller subscribes its         *)
(* closure, (publishes,) and awaits asyncio.wait_for(future, timeout).     *)
(* When the timeout passes, wait_for cancels the future and the caller     *)
(* resumes in a later run of the loop; only then does its finally clause   *)
(* unsubscribe the closure.                                                *)
(***************************************************************************)
FreshCorrelation == "c1"        \* str(uuid.uuid4())

WaiterHandler(w) ==
    IF w.kind = "publish_and_wait" THEN ResponseHandler ELSE WaitHandler

PublishAndWait ==
    /\ waiter.st = "none"
    /\ Len(ev) < MaxEvents
    /\ waiter' = [NoWaiter EXCEPT !.st = "waiting", !.kind = "publish_and_wait",
                                  !.fut = "pending", !.corr = FreshCorrelation,
                                  !.pat = TypeP \o ReplySuffix]
    /\ subscribers' = SubscribeOp(subscribers, TypeP \o ReplySuffix, ResponseHandler)
    /\ PublishCore(Event(Len(ev) + 1, TypeP, 0, now, DefaultTtl, 0,
                         FreshCorrelation, None, NoAck))

WaitForEvent ==
    /\ waiter.st = "none"
    /\ waiter' = [NoWaiter EXCEPT !.st = "waiting", !.kind = "wait_for_event",
                                  !.fut = "pending", !.pat = TypePReply]
    /\ subscribers' = SubscribeOp(subscribers, TypePReply, WaitHandler)
    /\ UNCHANGED <<now, ev, queue, event_counter, dlq, history, hq, error_count,
                   pc, cur, last, brokerVars>>
    /\ UNCHANGED <<tqVars, orchVars, agentVars>>

\* the timeout passes before the future has a result
WaiterTimeout ==
    /\ waiter.st = "waiting"
    /\ waiter.fut = "pending"
    /\ waiter' = [waiter EXCEPT !.st = "timedout", !.fut = "cancelled"]
    /\ UNCHANGED <<now, ev, subscribers, queue, event_counter, dlq, history, hq,
                   error_count, pc, cur, last, brokerVars>>
    /\ UNCHANGED <<tqVars, orchVars, agentVars>>

\* the caller resumes: return the reply or None; finally: unsubscribe
WaiterReturn ==
    /\ \/ waiter.st = "waiting" /\ waiter.fut = "result"
       \/ waiter.st = "timedout"
    /\ waiter' = [waiter EXCEPT !.st = "returned",
                                !.ret = IF waiter.fut = "result"
                                        THEN waiter.result ELSE 0]
    /\ subscribers' = UnsubscribeOp(subscribers, waiter.pat, WaiterHandler(waiter))
    /\ UNCHANGED <<now, ev, queue, event_counter, dlq, history, hq, error_count,
                   pc, cur, last, brokerVars>>
    /\ UNCHANGED <<tqVars, orchVars, agentVars>>

(***************************************************************************)
(* SpecWait: one caller of publish_and_wait or wait_for_event, and         *)
(* responders publishing reply events that carry the request's             *)
(* correlation id or another one.                                          *)
(***************************************************************************)
OtherCorrelation == "c0"

WaitInit ==
    /\ BusFresh
    /\ HistoryDefault
    /\ NoQueueNoGraph
    /\ persist = FALSE
    /\ redisUp = FALSE
    /\ subscribers = NoSubscribers

\* a responder can only copy a correlation id that a request carried
WaitReplyPublish ==
    \E c \in {OtherCorrelation} \cup
             {ev[o].correlation_id : o \in {i \in 1..Len(ev) : ev[i].event_type = TypeP}} :
        /\ Len(ev) < MaxEvents + 1
        /\ PublishNew(Event(Len(ev) + 1, TypePReply, 0, now, DefaultTtl, 1, c,
                            None, NoAck))

WaitNext ==
    \/ PublishAndWait \/ WaitForEvent \/ WaiterTimeout \/ WaiterReturn
    \/ WaitReplyPublish \/ ProcGet \/ ProcDispatch

SpecWait == WaitInit /\ [][WaitNext]_vars

\* C7: publish_and_wait returns the first dispatched reply with the
\* request's correlation id, or none when its timeout passed first; when
\* the call (or wait_for_event) has returned, its temporary subscription is
\* gone; and no dispatch of a matching reply makes the temporary handler
\* raise.
C7_RequestReply ==
    /\ waiter.st = "returned" =>
           /\ Count(subscribers[waiter.pat], WaiterHandler(waiter)) = 0
           /\ IF waiter.fut = "cancelled"
              THEN waiter.ret = 0
              ELSE waiter.ret # 0 /\ waiter.ret = waiter.first
    /\ last.fut_raises = 0

(***************************************************************************)
(* _poll_redis, one consumed message per step: rebuild the Event, skip     *)
(* (and acknowledge) a duplicate event_id, otherwise put the event into    *)
(* the local priority queue.  With a connection the message is the next    *)
(* undelivered stream entry and its stream id becomes ack_id; without one  *)
(* it is the head of the broker's memory queue and ack_id stays None.      *)
(***************************************************************************)
PollMessage(d, ackId) ==
    IF d.event_id \in processed
    THEN /\ acked' = IF ackId # NoAck THEN BrokerAck(acked, ackId) ELSE acked
         /\ UNCHANGED <<ev, queue, event_counter, processed>>
    ELSE /\ processed' = processed \cup {d.event_id}
         /\ ev' = Append(ev, FromData(d, ackId))
         /\ event_counter' = event_counter + 1
         /\ queue' = queue \cup
                {PublishEntry(FromData(d, ackId), event_counter + 1, Len(ev) + 1)}
         /\ UNCHANGED acked

Poll ==
    /\ persist
    /\ IF redisUp
       THEN /\ delivered < Len(stream)
            /\ delivered' = delivered + 1
            /\ PollMessage(stream[delivered + 1], <<delivered + 1>>)
            /\ UNCHANGED memq
       ELSE /\ memq # <<>>
            /\ memq' = Tail(memq)
            /\ PollMessage(Head(memq), NoAck)
            /\ UNCHANGED delivered
    /\ UNCHANGED <<now, subscribers, dlq, history, hq, error_count, pc, cur, last,
                   waiter, stream, persist, redisUp, invoked>>
    /\ UNCHANGED <<tqVars, orchVars, agentVars>>

(***************************************************************************)
(* SpecDurable: the bus with enable_persistence=True, with and without a   *)
(* connection.  Publishers publish through the bus; with a connection,     *)
(* other producers of the consumer group's stream add entries of the same  *)
(* format (every field stringified, so that a destination of None reads    *)
(* back as the string "None").  An event_id can be published again (a      *)
(* replay, a redelivery).                                                  *)
(***************************************************************************)
DurIds == {1, 2}
DurDestinations == {StrNone, "h1"}
DurTypes == {TypeTS, TypeO}

DurInit ==
    /\ BusFresh
    /\ HistoryDefault
    /\ NoQueueNoGraph
    /\ persist = TRUE
    /\ redisUp \in BOOLEAN
    /\ subscribers = [NoSubscribers EXCEPT ![TypeTS] = <<"h1">>]

DurPublish ==
    \E id \in DurIds :
        /\ Len(history) < MaxEvents
        /\ PublishNew(Event(id, TypeTS, 0, now, DefaultTtl, 0, None, None, NoAck))

StreamAdd ==
    \E id \in DurIds, t \in DurTypes, d \in DurDestinations :
        /\ redisUp
        /\ Len(stream) < MaxStream
        /\ stream' = Append(stream,
               [event_id |-> id, event_type |-> t, destination |-> d,
                payload |-> "dict", timestamp |-> now, priority |-> 0,
                correlation_id |-> StrNone])
        /\ UNCHANGED <<busVars, delivered, acked, processed, memq, persist,
                       redisUp, invoked, tqVars, orchVars, agentVars>>

DurNext == DurPublish \/ StreamAdd \/ Poll \/ ProcGet \/ ProcDispatch

SpecDurable == DurInit /\ [][DurNext]_vars

\* C8: in durable mode no handler is called twice for events that carry
\* the same event_id.
C8_NoHandlerTwicePerEventId == invoked.twice = {}

\* C9: a dispatch of an event that carries an ack_id acknowledges it on the
\* stream exactly when the dispatch reached a final outcome (no handler
\* raised, no handler matched, or the event went to the dead letter queue
\* and no retry of it was queued); an event with a retry queued is not
\* acknowledged.
C9_AckExactlyWhenFinal ==
    (last.obj # 0 /\ ev[last.obj].ack_id # NoAck) =>
        (last.acked <=> last.puts = {})

(***************************************************************************)
(* TaskQueue (task_queue.py) and Worker (worker.py).  A payload is the     *)
(* JSON text of one push; payloads are distinct (each carries queued_at).  *)
(***************************************************************************)
\* push_task: LPUSH with a connection, the memory queue without
PushTask(p) ==
    /\ IF tq_redis
       THEN tq_pending' = <<p>> \o tq_pending /\ UNCHANGED tq_memory
       ELSE tq_memory' = Append(tq_memory, p) /\ UNCHANGED tq_pending
    /\ UNCHANGED <<tq_redis, tq_processing, wk, wk_results, tq_obs>>

\* get_queue_size: LLEN of the pending list, qsize() of the memory queue
C27_ProcessingListSize == Len(tq_processing)

GetQueueSize == IF tq_redis THEN Len(tq_pending) ELSE Len(tq_memory)

Front(q) == SubSeq(q, 1, Len(q) - 1)

\* Worker.run: pop_task.  BRPOPLPUSH takes the tail of the pending list and
\* pushes it on the head of the processing list in one step; the memory
\* queue has no processing list.
WorkerPop ==
    /\ wk.pc = "idle"
    /\ IF tq_redis
       THEN /\ tq_pending # <<>>
            /\ tq_pending' = Front(tq_pending)
            /\ tq_processing' = <<tq_pending[Len(tq_pending)]>> \o tq_processing
            /\ wk' = [pc |-> "working", task |-> tq_pending[Len(tq_pending)]]
            /\ tq_obs' = [popped |-> tq_obs.popped \cup {tq_pending[Len(tq_pending)]},
                          lastpop |-> tq_pending[Len(tq_pending)]]
            /\ UNCHANGED tq_memory
       ELSE /\ tq_memory # <<>>
            /\ tq_memory' = Tail(tq_memory)
            /\ wk' = [pc |-> "working", task |-> Head(tq_memory)]
            /\ tq_obs' = [popped |-> tq_obs.popped \cup {Head(tq_memory)},
                          lastpop |-> Head(tq_memory)]
            /\ UNCHANGED <<tq_pending, tq_processing>>
    /\ UNCHANGED <<tq_redis, wk_results>>

\* Worker.process_task: run the agent and publish task.completed, or
\* task.failed when anything raised.  The run loop then pops again; no
\* call of complete_task follows.
WorkerFinish(status) ==
    /\ wk.pc = "working"
    /\ wk_results' = Append(wk_results, [node_id |-> wk.task, status |-> status])
    /\ wk' = [pc |-> "idle", task |-> NoTask]
    /\ UNCHANGED <<tq_redis, tq_pending, tq_processing, tq_memory, tq_obs>>

\* The worker process stops (shutdown or crash) while it holds a task.
WorkerStop ==
    /\ wk.pc = "working"
    /\ wk' = [pc |-> "stopped", task |-> wk.task]
    /\ UNCHANGED <<tq_redis, tq_pending, tq_processing, tq_memory, wk_results,
                   tq_obs>>

\* A worker process is started again: Worker(), setup(), run().
WorkerStart ==
    /\ wk.pc = "stopped"
    /\ wk' = [pc |-> "idle", task |-> NoTask]
    /\ UNCHANGED <<tq_redis, tq_pending, tq_processing, tq_memory, wk_results,
                   tq_obs>>

(***************************************************************************)
(* SpecQueue: producers push payloads, one worker at a time pops and       *)
(* processes them, and may stop and be started again.                      *)
(***************************************************************************)
MaxTasks == 3       \* payloads pushed in one behaviour

QueueInit ==
    /\ BusFresh
    /\ HistoryDefault
    /\ persist = TRUE
    /\ redisUp \in BOOLEAN
    /\ tq_redis = redisUp
    /\ subscribers = NoSubscribers
    /\ QueueFresh
    /\ OrchIdle
    /\ AgentFresh
    /\ SecurityFresh

Pushed == Len(tq_pending) + Len(tq_memory) + Cardinality(tq_obs.popped)

QueuePush ==
    /\ Pushed < MaxTasks
    /\ PushTask(Pushed + 1)
    /\ UNCHANGED <<busVars, brokerVars, orchVars, agentVars>>

QueueWorkerPop == WorkerPop /\ UNCHANGED <<busVars, brokerVars, orchVars, agentVars>>

QueueWorkerFinish ==
    \E status \in {"success", "failed"} :
        WorkerFinish(status) /\ UNCHANGED <<busVars, brokerVars, orchVars, agentVars>>

QueueWorkerStop == WorkerStop /\ UNCHANGED <<busVars, brokerVars, orchVars, agentVars>>

QueueWorkerStart == WorkerStart /\ UNCHANGED <<busVars, brokerVars, orchVars, agentVars>>

QueueNext ==
    \/ QueuePush \/ QueueWorkerPop \/ QueueWorkerFinish
    \/ QueueWorkerStop \/ QueueWorkerStart

SpecQueue == QueueInit /\ [][QueueNext]_vars

Range(q) == {q[i] : i \in 1..Len(q)}

\* the payloads whose result event a worker has published
Finished == {wk_results[i].node_id : i \in 1..Len(wk_results)}

\* C10: with the durable backend the processing list holds exactly the
\* in-flight payloads, those popped whose task no worker has finished and
\* reported: a pop moved the oldest pending payload there, it stays there
\* when the worker stops, and it is gone once the result event is published.
C10_ProcessingIsInFlight ==
    tq_redis =>
        /\ Range(tq_processing) = tq_obs.popped \ Finished
        /\ \A p \in Range(tq_pending) : tq_obs.lastpop < p

\* C11: with no backing store the in-memory queue gives the contract of
\* the durable queue: a payload that was popped and whose task is not
\* finished is still held by the queue, on a processing list.
C11_MemoryQueueHoldsInFlight ==
    ~tq_redis =>
        \A p \in tq_obs.popped \ Finished :
            p \in Range(tq_processing) \cup Range(tq_memory)

(***************************************************************************)
(* Orchestrator (orchestrator.py): one process_goal call on a task graph.  *)
(* nodes maps node ids to TaskNode records, in the order of the graph's    *)
(* dict.                                                                   *)
(***************************************************************************)
MaxNodeRetries == 1     \* the largest retry_config.max_retries of a node
MaxErrors == 3          \* entries kept of the errors list

TaskNode(deps, prio, maxr) ==
    [status |-> "PENDING", dependencies |-> deps, priority |-> prio,
     retries |-> 0, max_retries |-> maxr]

\* a readiness test that is content with one completed dependency
C1_AnyDependencyMet(node, completed) ==
    \/ node.dependencies = {}
    \/ \E dep \in node.dependencies : dep \in completed

\* deps_met = all(dep in completed for dep in node.dependencies)
DepsMet(node, completed) ==
    \A dep \in node.dependencies : dep \in completed

\* ready.sort(key=priority, reverse=True): a stable sort, so nodes of equal
\* priority keep the order of the graph's dict
RECURSIVE SortByPriority(_, _)
SortByPriority(ns, ids) ==
    IF ids = {} THEN <<>>
    ELSE LET n == CHOOSE x \in ids :
                     \A y \in ids \ {x} :
                         \/ ns[x].priority > ns[y].priority
                         \/ ns[x].priority = ns[y].priority /\ x < y
         IN <<n>> \o SortByPriority(ns, ids \ {n})

\* _get_ready_nodes
C22_GetReadyNodesUntilFailure(ns, completed) ==
    IF \E n \in DOMAIN ns : ns[n].status = "FAILED" THEN <<>>
    ELSE SortByPriority(ns, {n \in DOMAIN ns : /\ ns[n].status = "PENDING"
                                               /\ DepsMet(ns[n], completed)})

GetReadyNodes(ns, completed) ==
    SortByPriority(ns, {n \in DOMAIN ns : /\ ns[n].status = "PENDING"
                                          /\ DepsMet(ns[n], completed)})

C33_FinalStatusNeverFailed(ns, completed) ==
    IF \A n \in DOMAIN ns : ns[n].status = "SUCCESS" THEN "success"
    ELSE "partial_failure"

\* final_status of the result
FinalStatus(ns, completed) ==
    IF \A n \in DOMAIN ns : ns[n].status = "SUCCESS" THEN "success"
    ELSE IF completed # {} THEN "partial_failure" ELSE "failed"

ErrorsAppend(errs, x) == IF Len(errs) < MaxErrors THEN Append(errs, x) ELSE errs

C23_TakeAll(a, b) == a

Min(a, b) == IF a < b THEN a ELSE b

orchFrame == <<busVars, brokerVars, agentVars>>

\* process_goal up to the call of _execute_<mode>
\* _persist_graph: the row of the graph, with task_graph.status and the
\* JSON of the nodes, of which the statuses are kept here
PersistGraph(gs, ns) == [status |-> gs, nodes |-> [n \in DOMAIN ns |-> ns[n].status]]

\* task_graph.status when _execute_* returns: only _execute_sequential
\* assigns it
GraphStatus(m, ns, old) ==
    IF m \in {"sequential", "streaming"}
    THEN IF \A n \in DOMAIN ns : ns[n].status = "SUCCESS"
         THEN "SUCCESS" ELSE "FAILED"
    ELSE old

C31_GraphEventTwice(events, kind) == Append(Append(events, kind), kind)

\* event_bus.publish(Event(event_type="graph.<kind>", ...)) in process_goal
GraphEvent(events, kind) == Append(events, kind)

FreeMaxNodes == 5           \* TIER_LIMITS["free"]["max_nodes_per_graph"]
ProMaxNodes == 50           \* TIER_LIMITS["pro"]["max_nodes_per_graph"]
EnterpriseMaxNodes == 500   \* TIER_LIMITS["enterprise"]["max_nodes_per_graph"]

\* TIER_LIMITS[tier]["max_nodes_per_graph"]; a tier the table does not have
\* gets the limits of "free"
MaxNodesPerGraph(tier) ==
    IF tier = "pro" THEN ProMaxNodes
    ELSE IF tier = "enterprise" THEN EnterpriseMaxNodes ELSE FreeMaxNodes

C30_LimitExclusive(value, limit_value) == value < limit_value

\* check_feature_access on a numeric limit: return value <= limit_value
WithinLimit(value, limit_value) == value <= limit_value

\* process_goal up to the call of _execute_*: graph.started is published,
\* and a graph with more nodes than the tier allows raises PermissionError,
\* which the except clause answers with graph.failed before raising again
ProcessGoal(graph, m, par, credits, qsize, tier) ==
    /\ opc = "none"
    /\ nodes' = graph
    /\ mode' = m
    /\ max_parallel_tasks' = par
    /\ max_credits' = credits
    /\ max_queue_size' = qsize
    /\ IF WithinLimit(Len(graph), MaxNodesPerGraph(tier))
       THEN /\ opc' = "loop"
            /\ pg' = [tier |-> tier,
                      events |-> GraphEvent(<<>>, "graph.started"),
                      status |-> "PENDING",
                      stored |-> PersistGraph("PENDING", graph)]
       ELSE /\ opc' = "done"
            /\ pg' = [tier |-> tier,
                      events |-> GraphEvent(GraphEvent(<<>>, "graph.started"),
                                            "graph.failed"),
                      status |-> "PENDING",
                      stored |-> PersistGraph("PENDING", graph)]
    /\ task_results' = [n \in DOMAIN graph |-> "none"]
    /\ UNCHANGED <<completed_nodes, ready_nodes, exec_tasks, errors,
                   total_credits_used, final_status, tqVars, orchFrame>>

C24_FinishNever ==
    /\ opc' = "loop"
    /\ final_status' = FinalStatus(nodes, completed_nodes)
    /\ pg' = pg

\* _execute_* returns its result, and process_goal publishes graph.completed
Finish ==
    /\ opc' = "done"
    /\ final_status' = FinalStatus(nodes, completed_nodes)
    /\ pg' = [pg EXCEPT
                 !.events = GraphEvent(@, "graph.completed"),
                 !.status = GraphStatus(mode, nodes, @),
                 !.stored = PersistGraph(GraphStatus(mode, nodes, pg.status),
                                         nodes)]

(***************************************************************************)
(* _execute_node with _execute_with_retry and BaseAgent.run: the node      *)
(* becomes RUNNING, then every attempt either succeeds or raises.          *)
(***************************************************************************)
C40_NodeStartStaysPending(ns, n) == ns

NodeStart(ns, n) == [ns EXCEPT ![n].status = "RUNNING"]

\* one attempt; attempt counts the attempts already made.  The result is
\* the node and what became of the call: "running" (another attempt
\* follows), "returned" or "raised".
NodeAttempt(node, attempt, ok) ==
    IF ok
    THEN [node |-> [node EXCEPT !.status = "SUCCESS"], call |-> "returned"]
    ELSE LET \* BaseAgent.run: FAILED, then RETRY while retries are left
             ran == IF node.retries < node.max_retries
                    THEN [node EXCEPT !.status = "RETRY", !.retries = @ + 1]
                    ELSE [node EXCEPT !.status = "FAILED"]
         IN IF attempt < node.max_retries
            THEN [node |-> [ran EXCEPT !.retries = attempt + 1], call |-> "running"]
            ELSE [node |-> [ran EXCEPT !.status = "FAILED"], call |-> "raised"]

(***************************************************************************)
(* _execute_sequential (and _execute_streaming, which calls it).           *)
(***************************************************************************)
SeqLoop ==
    /\ mode \in {"sequential", "streaming"}
    /\ opc = "loop"
    /\ LET ready == GetReadyNodes(nodes, completed_nodes)
       IN IF ready = <<>>
          THEN Finish /\ UNCHANGED ready_nodes
          ELSE /\ ready_nodes' = ready
               /\ opc' = "exec"
               /\ UNCHANGED <<final_status, pg>>
    /\ UNCHANGED <<mode, nodes, max_parallel_tasks, max_credits, max_queue_size,
                   completed_nodes, exec_tasks, errors, task_results,
                   total_credits_used, tqVars, orchFrame>>

\* for node in ready_nodes: await self._execute_node(...)
SeqStart ==
    /\ mode \in {"sequential", "streaming"}
    /\ opc = "exec"
    /\ exec_tasks = <<>>
    /\ nodes' = NodeStart(nodes, Head(ready_nodes))
    /\ exec_tasks' = <<[node |-> Head(ready_nodes), st |-> "running", attempt |-> 0]>>
    /\ pg' = [pg EXCEPT !.stored = PersistGraph(pg.status, nodes')]
    /\ UNCHANGED <<mode, max_parallel_tasks, max_credits, max_queue_size, opc,
                   completed_nodes, ready_nodes, errors, task_results,
                   total_credits_used, final_status, tqVars, orchFrame>>

SeqAttempt(ok) ==
    /\ mode \in {"sequential", "streaming"}
    /\ opc = "exec"
    /\ exec_tasks # <<>>
    /\ LET n == exec_tasks[1].node
           r == NodeAttempt(nodes[n], exec_tasks[1].attempt, ok)
       IN /\ nodes' = [nodes EXCEPT ![n] = r.node]
          /\ pg' = IF r.call = "raised"
                   THEN [pg EXCEPT !.stored = PersistGraph(pg.status, nodes')]
                   ELSE pg
          /\ IF r.call = "running"
             THEN /\ exec_tasks' = <<[exec_tasks[1] EXCEPT !.attempt = @ + 1]>>
                  /\ UNCHANGED <<completed_nodes, errors, ready_nodes, opc>>
             ELSE /\ exec_tasks' = <<>>
                  /\ ready_nodes' = Tail(ready_nodes)
                  /\ opc' = IF Tail(ready_nodes) = <<>> THEN "loop" ELSE "exec"
                  /\ IF r.call = "returned"
                     THEN /\ completed_nodes' = completed_nodes \cup {n}
                          /\ UNCHANGED errors
                     ELSE /\ errors' = ErrorsAppend(errors, n)
                          /\ UNCHANGED completed_nodes
    /\ UNCHANGED <<mode, max_parallel_tasks, max_credits, max_queue_size,
                   task_results, total_credits_used, final_status, tqVars,
                   orchFrame>>

(***************************************************************************)
(* _execute_parallel: the first max_parallel_tasks ready nodes run as      *)
(* concurrent _execute_node calls; gather returns when all are done.       *)
(***************************************************************************)
ParLoop ==
    /\ mode = "parallel"
    /\ opc = "loop"
    /\ LET ready == GetReadyNodes(nodes, completed_nodes)
       IN IF ready = <<>>
          THEN Finish /\ UNCHANGED <<ready_nodes, exec_tasks>>
          ELSE /\ ready_nodes' = ready
               /\ exec_tasks' = [i \in 1..Min(Len(ready), max_parallel_tasks) |->
                                   [node |-> ready[i], st |-> "created", attempt |-> 0]]
               /\ opc' = "gather"
               /\ UNCHANGED <<final_status, pg>>
    /\ UNCHANGED <<mode, nodes, max_parallel_tasks, max_credits, max_queue_size,
                   completed_nodes, errors, task_results, total_credits_used,
                   tqVars, orchFrame>>

ParStart(i) ==
    /\ opc = "gather"
    /\ exec_tasks[i].st = "created"
    /\ nodes' = NodeStart(nodes, exec_tasks[i].node)
    /\ exec_tasks' = [exec_tasks EXCEPT ![i].st = "running"]
    /\ pg' = [pg EXCEPT !.stored = PersistGraph(pg.status, nodes')]
    /\ UNCHANGED <<mode, max_parallel_tasks, max_credits, max_queue_size, opc,
                   completed_nodes, ready_nodes, errors, task_results,
                   total_credits_used, final_status, tqVars, orchFrame>>

ParAttempt(i, ok) ==
    /\ opc = "gather"
    /\ exec_tasks[i].st = "running"
    /\ LET n == exec_tasks[i].node
           r == NodeAttempt(nodes[n], exec_tasks[i].attempt, ok)
       IN /\ nodes' = [nodes EXCEPT ![n] = r.node]
          /\ pg' = IF r.call = "raised"
                   THEN [pg EXCEPT !.stored = PersistGraph(pg.status, nodes')]
                   ELSE pg
          /\ exec_tasks' = [exec_tasks EXCEPT ![i].st = r.call,
                                              ![i].attempt = @ + 1]
    /\ UNCHANGED <<mode, max_parallel_tasks, max_credits, max_queue_size, opc,
                   completed_nodes, ready_nodes, errors, task_results,
                   total_credits_used, final_status, tqVars, orchFrame>>

RECURSIVE RaisedNodes(_, _)
RaisedNodes(tasks, errs) ==
    IF tasks = <<>> THEN errs
    ELSE RaisedNodes(Tail(tasks),
                     IF Head(tasks).st = "raised"
                     THEN ErrorsAppend(errs, Head(tasks).node) ELSE errs)

\* for i, result in enumerate(results): node = ready_nodes[i]
ParCollect ==
    /\ opc = "gather"
    /\ \A i \in DOMAIN exec_tasks : exec_tasks[i].st \in {"returned", "raised"}
    /\ nodes' = [n \in DOMAIN nodes |->
                    IF \E i \in DOMAIN exec_tasks :
                           ready_nodes[i] = n /\ exec_tasks[i].st = "raised"
                    THEN [nodes[n] EXCEPT !.status = "FAILED"] ELSE nodes[n]]
    /\ completed_nodes' = completed_nodes \cup
           {ready_nodes[i] : i \in {j \in DOMAIN exec_tasks :
                                        exec_tasks[j].st = "returned"}}
    /\ errors' = RaisedNodes(exec_tasks, errors)
    /\ exec_tasks' = <<>>
    /\ opc' = "loop"
    /\ UNCHANGED <<mode, max_parallel_tasks, max_credits, max_queue_size,
                   ready_nodes, task_results, total_credits_used, final_status, pg,
                   tqVars, orchFrame>>

(***************************************************************************)
(* _execute_distributed: ready nodes are pushed to the task queue; the     *)
(* results arrive as task.completed / task.failed events at                *)
(* task_completion_handler and are processed in the rounds that find no    *)
(* ready node.                                                             *)
(***************************************************************************)
GlobalError == 0        \* {"node_id": "GLOBAL", ...}

DistLoop ==
    /\ mode = "distributed"
    /\ opc = "loop"
    /\ IF total_credits_used >= max_credits
       THEN /\ errors' = ErrorsAppend(errors, GlobalError)
            /\ Finish
            /\ UNCHANGED ready_nodes
       ELSE LET ready == GetReadyNodes(nodes, completed_nodes)
            IN /\ UNCHANGED errors
               /\ IF ready = <<>>
                  THEN /\ UNCHANGED ready_nodes
                       /\ IF \/ Cardinality(completed_nodes) = Len(nodes)
                             \/ ~\E n \in DOMAIN nodes : nodes[n].status = "RUNNING"
                          THEN Finish
                          ELSE opc' = "wait" /\ UNCHANGED <<final_status, pg>>
                  ELSE /\ UNCHANGED <<final_status, pg>>
                       /\ IF GetQueueSize > max_queue_size
                          THEN opc' = "throttle" /\ UNCHANGED ready_nodes
                          ELSE opc' = "dispatch" /\ ready_nodes' = ready
    /\ UNCHANGED <<mode, nodes, max_parallel_tasks, max_credits, max_queue_size,
                   completed_nodes, exec_tasks, task_results,
                   total_credits_used, tqVars, orchFrame>>

\* await asyncio.sleep(1.0); continue
DistThrottled ==
    /\ opc = "throttle"
    /\ opc' = "loop"
    /\ UNCHANGED <<mode, nodes, max_parallel_tasks, max_credits, max_queue_size,
                   completed_nodes, ready_nodes, exec_tasks, errors,
                   task_results, total_credits_used, final_status, pg, tqVars,
                   orchFrame>>

\* what the loop over task_results does with node n; late holds the nodes
\* whose SLA timeout has passed
ProcessResult(node, result, isLate) ==
    IF node.status = "RUNNING" /\ isLate THEN [node EXCEPT !.status = "FAILED"]
    ELSE IF result = "failed" THEN [node EXCEPT !.status = "FAILED"]
    ELSE [node EXCEPT !.status = "SUCCESS"]

RECURSIVE ResultErrors(_, _, _)
ResultErrors(n, after, errs) ==
    IF n > Len(nodes) THEN errs
    ELSE ResultErrors(n + 1, after,
             IF /\ task_results[n] # "none"
                /\ n \notin completed_nodes
                /\ after[n].status = "FAILED"
             THEN ErrorsAppend(errs, n) ELSE errs)

\* await asyncio.sleep(0.1), then the loop over list(task_results.items()),
\* taken in the order of the nodes; a result that is applied is followed by
\* _persist_graph, an SLA timeout is not
DistProcess ==
    /\ opc = "wait"
    /\ \E late \in SUBSET {n \in DOMAIN nodes : nodes[n].status = "RUNNING"} :
          LET seen == {n \in DOMAIN nodes :
                          task_results[n] # "none" /\ n \notin completed_nodes}
              after == [n \in DOMAIN nodes |->
                           IF n \in seen
                           THEN ProcessResult(nodes[n], task_results[n], n \in late)
                           ELSE nodes[n]]
          IN /\ late \subseteq seen
             /\ nodes' = after
             /\ completed_nodes' = completed_nodes \cup
                    {n \in seen : after[n].status = "SUCCESS"}
             /\ errors' = ResultErrors(1, after, errors)
             /\ pg' = IF seen \ late = {} THEN pg
                      ELSE [pg EXCEPT !.stored =
                               PersistGraph(pg.status,
                                            [n \in DOMAIN nodes |->
                                                IF n \in late /\ \A k \in seen \ late : n > k
                                                THEN nodes[n] ELSE after[n]])]
    /\ opc' = "loop"
    /\ UNCHANGED <<mode, max_parallel_tasks, max_credits, max_queue_size,
                   ready_nodes, exec_tasks, task_results, total_credits_used,
                   final_status, tqVars, orchFrame>>

\* for node in ready_nodes: if node.status != RUNNING: ... push_task
DistDispatch ==
    /\ opc = "dispatch"
    /\ LET n == Head(ready_nodes)
       IN IF nodes[n].status # "RUNNING"
          THEN /\ total_credits_used' = total_credits_used + 1
               /\ nodes' = NodeStart(nodes, n)
               /\ PushTask(n)
               /\ pg' = [pg EXCEPT !.stored = PersistGraph(pg.status, nodes')]
          ELSE UNCHANGED <<total_credits_used, nodes, tqVars, pg>>
    /\ ready_nodes' = Tail(ready_nodes)
    /\ opc' = IF Tail(ready_nodes) = <<>> THEN "loop" ELSE "dispatch"
    /\ UNCHANGED <<mode, max_parallel_tasks, max_credits, max_queue_size,
                   completed_nodes, exec_tasks, errors, task_results,
                   final_status, orchFrame>>

\* task_completion_handler, called by the bus with a result event a worker
\* published for this graph; the bus may deliver the event more than once
\* and in any order.
DeliverResult(i) ==
    /\ mode = "distributed"
    /\ opc \in {"loop", "wait", "throttle", "dispatch"}
    /\ task_results[wk_results[i].node_id] # wk_results[i].status
    /\ task_results' = [task_results EXCEPT ![wk_results[i].node_id] =
                                                wk_results[i].status]
    /\ UNCHANGED <<mode, nodes, max_parallel_tasks, max_credits, max_queue_size,
                   opc, completed_nodes, ready_nodes, exec_tasks, errors,
                   total_credits_used, final_status, pg, tqVars, orchFrame>>

(***************************************************************************)
(* SpecOrch: process_goal on a graph of three nodes in each execution      *)
(* mode, with chains, a fan-in, a dependency on an id the graph does not   *)
(* have, a dependency on oneself and a cycle; agents succeed or raise; in  *)
(* distributed mode a worker pops, runs and reports each pushed node.      *)
(***************************************************************************)
Missing == 0        \* an id that is no node of the graph

Modes == {"sequential", "parallel", "streaming", "distributed"}
DefaultMaxParallel == 5     \* TaskGraph.max_parallel_tasks

Graphs ==
    {<<TaskNode(d1, prio[1], maxr), TaskNode(d2, prio[2], maxr),
       TaskNode(d3, prio[3], maxr)>> :
        d1 \in {{}, {Missing}}, d2 \in {{}, {1}, {3}},
        d3 \in {{}, {1, 2}, {2}, {3}},
        prio \in {<<0, 0, 0>>, <<0, 1, 2>>},
        maxr \in {0, MaxNodeRetries}}

\* a chain of k nodes, each depending on the one before it
Chain(k) ==
    [n \in 1..k |-> TaskNode(IF n = 1 THEN {} ELSE {n - 1}, 0, 0)]

\* graphs of exactly the free tier's node limit and of one node more
LargeGraphs == {Chain(FreeMaxNodes), Chain(FreeMaxNodes + 1)}

OrchInit ==
    /\ BusFresh
    /\ HistoryDefault
    /\ persist = FALSE
    /\ redisUp = FALSE
    /\ subscribers = NoSubscribers
    /\ tq_redis \in BOOLEAN
    /\ QueueFresh
    /\ OrchIdle
    /\ AgentFresh
    /\ SecurityFresh

OrchProcessGoal ==
    \E graph \in Graphs \cup LargeGraphs, m \in Modes :
        \E par \in IF m = "parallel" THEN {1, DefaultMaxParallel}
                   ELSE {DefaultMaxParallel},
           credits \in IF m = "distributed" THEN {1, DefaultMaxCredits}
                       ELSE {DefaultMaxCredits},
           qsize \in IF m = "distributed" THEN {0, DefaultMaxQueueSize}
                     ELSE {DefaultMaxQueueSize},
           tier \in IF graph \in LargeGraphs THEN {"free", "pro"}
                    ELSE {"free"} :
            ProcessGoal(graph, m, par, credits, qsize, tier)

OrchSeqAttempt == \E ok \in BOOLEAN : SeqAttempt(ok)

OrchParStart == \E i \in DOMAIN exec_tasks : ParStart(i)

OrchParAttempt == \E i \in DOMAIN exec_tasks, ok \in BOOLEAN : ParAttempt(i, ok)

OrchDeliverResult == \E i \in DOMAIN wk_results : DeliverResult(i)

OrchNext ==
    \/ OrchProcessGoal
    \/ SeqLoop \/ SeqStart \/ OrchSeqAttempt
    \/ ParLoop \/ OrchParStart \/ OrchParAttempt \/ ParCollect
    \/ DistLoop \/ DistThrottled \/ DistProcess \/ DistDispatch
    \/ OrchDeliverResult
    \/ QueueWorkerPop \/ QueueWorkerFinish \/ QueueWorkerStop \/ QueueWorkerStart

SpecOrch == OrchInit /\ [][OrchNext]_vars

\* the coroutines of _execute_sequential and _execute_parallel keep running:
\* every handler call returns or raises, and the loop goes on after it
SpecOrchFair ==
    /\ SpecOrch
    /\ WF_vars(SeqLoop) /\ WF_vars(SeqStart) /\ WF_vars(OrchSeqAttempt)
    /\ WF_vars(ParLoop) /\ WF_vars(OrchParStart) /\ WF_vars(OrchParAttempt)
    /\ WF_vars(ParCollect)

\* node n becomes RUNNING in this step
BecomesRunning(n) ==
    /\ n \in DOMAIN nodes
    /\ nodes[n].status # "RUNNING"
    /\ nodes'[n].status = "RUNNING"

\* every dependency of node n is a node of the graph that reached SUCCESS
\* in this run
DependenciesSucceeded(n) ==
    \A d \in nodes[n].dependencies :
        /\ d \in DOMAIN nodes
        /\ nodes[d].status = "SUCCESS"
        /\ d \in completed_nodes

\* C1: in every execution mode a node becomes RUNNING only in a state in
\* which every id in its dependencies is a node of the same graph that
\* reached SUCCESS in this run; a node that has left PENDING has no
\* dependency that failed, never ran or does not exist.
C1_RunningOnlyAfterDependencies ==
    /\ [][\A n \in DOMAIN nodes : BecomesRunning(n) => DependenciesSucceeded(n)]_vars
    /\ [](\A n \in DOMAIN nodes :
              nodes[n].status # "PENDING" => DependenciesSucceeded(n))

\* In distributed mode the node that depends on two others is RUNNING,
\* after both of them (the second depending on the first) ran and succeeded.
C1_Witness ==
    /\ mode = "distributed"
    /\ nodes[3].status = "RUNNING"
    /\ nodes[3].dependencies = {1, 2}
    /\ nodes[2].dependencies = {1}
    /\ completed_nodes = {1, 2}

(***************************************************************************)
(* The distributed run end to end, Orchestrator and Worker with their      *)
(* buses as src/test_distributed_flow.py sets them up: both buses have     *)
(* enable_persistence, both use the module's one broker and the one task   *)
(* queue, which are connected to Redis or fell back to memory.  The Worker *)
(* publishes a result event through its own bus; a bus poller that         *)
(* consumes a broker message skips a duplicate event_id and otherwise      *)
(* hands the event to its own bus's subscribers.  The poller, the          *)
(* processor and the dispatch to the one subscriber are one step here.     *)
(* Entry i of wk_results is the payload of the result event with           *)
(* event_id i.                                                             *)
(***************************************************************************)
TypeTC == <<"t", ".", "c">>     \* "task.completed"
TypeTF == <<"t", ".", "f">>     \* "task.failed"

\* Event(event_type="task.completed" | "task.failed", source=worker_id, ...)
ResultEvent(i, status) ==
    Event(i, IF status = "success" THEN TypeTC ELSE TypeTF, 0, now,
          DefaultTtl, DefaultMaxRetries, None, None, NoAck)

\* EventBus.publish on the Worker's bus: broker.publish, and when it raises
\* the event goes to the Worker bus's own priority queue, which no other
\* bus reads.
WorkerPublish(d) ==
    IF BrokerPublishRaises(d)
    THEN UNCHANGED <<stream, memq>>
    ELSE IF redisUp
         THEN stream' = Append(stream, d) /\ UNCHANGED memq
         ELSE memq' = Append(memq, d) /\ UNCHANGED stream

\* Worker.process_task to its end: the agent ran and the result event is
\* published
DistWorkerFinish ==
    /\ WorkerFinish("success")
    /\ WorkerPublish(ToDict(ResultEvent(Len(wk_results) + 1, "success")))
    /\ UNCHANGED <<busVars, delivered, acked, processed, persist, redisUp,
                   invoked, orchVars, agentVars>>

\* broker.consume by one of the consumers of the group: the next
\* undelivered stream entry, or the head of the memory queue
ConsumeReady == IF redisUp THEN delivered < Len(stream) ELSE memq # <<>>

Consumed == IF redisUp THEN stream[delivered + 1] ELSE Head(memq)

Consume ==
    /\ ConsumeReady
    /\ IF redisUp
       THEN delivered' = delivered + 1 /\ UNCHANGED memq
       ELSE memq' = Tail(memq) /\ UNCHANGED delivered

\* task_completion_handler is subscribed from the start of
\* _execute_distributed to its finally clause
CompletionSubscribed == mode = "distributed" /\ opc \notin {"none", "done"}

\* task_completion_handler(event)
TaskCompletionHandler(i) ==
    [task_results EXCEPT ![wk_results[i].node_id] = wk_results[i].status]

\* the Orchestrator bus's _poll_redis takes the message
DistOrchPoll ==
    /\ persist
    /\ Consume
    /\ IF Consumed.event_id \in processed
       THEN UNCHANGED <<processed, task_results>>
       ELSE /\ processed' = processed \cup {Consumed.event_id}
            /\ IF CompletionSubscribed
               THEN task_results' = TaskCompletionHandler(Consumed.event_id)
               ELSE UNCHANGED task_results
    /\ UNCHANGED <<busVars, stream, acked, persist, redisUp, invoked, tqVars,
                   mode, nodes, max_parallel_tasks, max_credits,
                   max_queue_size, opc, completed_nodes, ready_nodes,
                   exec_tasks, errors, total_credits_used, final_status, pg,
                   agentVars>>

\* the Worker bus's _poll_redis takes the message; the Worker's bus has no
\* subscriber for result events
DistWorkerPoll ==
    /\ persist
    /\ Consume
    /\ processed' = processed \cup {Consumed.event_id}
    /\ UNCHANGED <<busVars, stream, acked, persist, redisUp, invoked, tqVars,
                   orchVars, agentVars>>

\* node B depends on node A
DistGraphs ==
    {<<TaskNode({}, prio[1], 0), TaskNode({1}, prio[2], 0)>> :
        prio \in {<<10, 5>>, <<0, 0>>, <<0, 1>>}}

DistInit == QueueInit

DistProcessGoal ==
    \E graph \in DistGraphs, credits \in {1, DefaultMaxCredits} :
        ProcessGoal(graph, "distributed", DefaultMaxParallel,
                    credits, DefaultMaxQueueSize, "free")

DistNext ==
    \/ DistProcessGoal
    \/ DistLoop \/ DistProcess \/ DistDispatch
    \/ QueueWorkerPop \/ DistWorkerFinish
    \/ DistOrchPoll \/ DistWorkerPoll

SpecDist == DistInit /\ [][DistNext]_vars

\* every task of the run keeps running: the Orchestrator's loop, the
\* Worker's loop and the two pollers
SpecDistFair ==
    /\ SpecDist
    /\ WF_vars(DistProcessGoal)
    /\ WF_vars(DistLoop) /\ WF_vars(DistProcess) /\ WF_vars(DistDispatch)
    /\ WF_vars(QueueWorkerPop) /\ WF_vars(DistWorkerFinish)
    /\ WF_vars(DistOrchPoll) /\ WF_vars(DistWorkerPoll)

\* C12: with the durable bus and queue, B is pushed only after A's result
\* reached the completion handler, and the run (made with the default
\* credit budget) terminates with both nodes SUCCESS and status "success".
C12_DistributedHappyPath ==
    /\ [](\A n \in DOMAIN nodes :
              nodes[n].status # "PENDING" =>
                  \A d \in nodes[n].dependencies : task_results[d] = "success")
    /\ (redisUp /\ tq_redis) =>
           \/ <>(/\ opc = "done"
                 /\ final_status = "success"
                 /\ \A n \in DOMAIN nodes : nodes[n].status = "SUCCESS")
           \/ <>(max_credits # DefaultMaxCredits)

(***************************************************************************)
(* The handler runtime: BaseAgent.run with its circuit breaker and        *)
(* permission check (agents/base_agent.py), called by _execute_node and    *)
(* _execute_with_retry (orchestrator.py).  One agent serves the nodes of   *)
(* a run one after the other, so its breaker carries over from node to     *)
(* node.                                                                   *)
(***************************************************************************)
MaxAgentNodes == 3      \* nodes presented to the agent in one behaviour
MaxAgentRetries == 2    \* retry_config.max_retries of a node, besides the
                        \* one that equals the breaker's failure_threshold
MaxTicks == 2           \* clock advances in one behaviour

Max0(x) == IF x > 0 THEN x ELSE 0

C14_ShouldAttemptAlways(b, t) ==
    IF b.state = "open"
    THEN [ok |-> TRUE,
          cb |-> [b EXCEPT !.state = "half-open", !.consecutive_successes = 0]]
    ELSE [ok |-> TRUE, cb |-> b]

\* should_attempt at time t: the answer and the breaker afterwards
ShouldAttempt(b, t) ==
    IF b.state = "closed" THEN [ok |-> TRUE, cb |-> b]
    ELSE IF b.state = "open"
    THEN IF /\ b.last_failure_time # <<>>
            /\ t - b.last_failure_time[1] >= b.timeout_seconds
         THEN [ok |-> TRUE,
               cb |-> [b EXCEPT !.state = "half-open",
                                !.consecutive_successes = 0]]
         ELSE [ok |-> FALSE, cb |-> b]
    ELSE [ok |-> TRUE, cb |-> b]

C15_RecordSuccessOneEarly(b) ==
    LET b1 == [b EXCEPT !.consecutive_successes = @ + 1]
        b2 == IF /\ b1.state = "half-open"
                 /\ b1.consecutive_successes + 1 >= b1.success_threshold
              THEN [b1 EXCEPT !.state = "closed", !.failure_count = 0]
              ELSE b1
    IN IF b2.state = "closed"
       THEN [b2 EXCEPT !.failure_count = Max0(@ - 1)]
       ELSE b2

RecordSuccess(b) ==
    LET b1 == [b EXCEPT !.consecutive_successes = @ + 1]
        b2 == IF /\ b1.state = "half-open"
                 /\ b1.consecutive_successes >= b1.success_threshold
              THEN [b1 EXCEPT !.state = "closed", !.failure_count = 0]
              ELSE b1
    IN IF b2.state = "closed"
       THEN [b2 EXCEPT !.failure_count = Max0(@ - 1)]
       ELSE b2

C13_RecordFailureOneLate(b, t) ==
    LET b1 == [b EXCEPT !.failure_count = @ + 1, !.last_failure_time = <<t>>,
                        !.consecutive_successes = 0]
    IN IF b1.failure_count > b1.failure_threshold
       THEN [b1 EXCEPT !.state = "open"]
       ELSE b1

RecordFailure(b, t) ==
    LET b1 == [b EXCEPT !.failure_count = @ + 1, !.last_failure_time = <<t>>,
                        !.consecutive_successes = 0]
    IN IF b1.failure_count >= b1.failure_threshold
       THEN [b1 EXCEPT !.state = "open"]
       ELSE b1

C16_CheckPermissionsAny(node, scopes) ==
    \/ node.required_permissions = {}
    \/ scopes # {}

\* _check_permissions returns without raising
CheckPermissions(node, scopes) ==
    \A required_perm \in node.required_permissions : required_perm \in scopes

\* the handler body returns on its call number calls (counted from 0)
BodyReturns(node, calls) == calls >= node.fails

\* the node's status history with one more assignment
Assign(h, status) ==
    IF Len(h) > 0 /\ h[Len(h)] = status THEN h ELSE Append(h, status)

\* the event task.<node_id>.<kind> that run publishes, with its priority
TaskEvent(kind, priority) == [kind |-> kind, priority |-> priority]

\* BaseAgent.run(task_node, context) at time t, the agent being enabled; events
\* are the ones the call publishes, in order
AgentRun(node, scopes, b, t, calls, h) ==
    LET probe == ShouldAttempt(b, t)
    IN IF ~probe.ok
       THEN [node |-> node, cb |-> probe.cb, hist |-> h, outcome |-> "circuit",
             events |-> <<>>]
       ELSE IF ~CheckPermissions(node, scopes)
       THEN [node |-> node, cb |-> probe.cb, hist |-> h,
             outcome |-> "permission", events |-> <<>>]
       ELSE IF BodyReturns(node, calls)
       THEN [node |-> [node EXCEPT !.status = "SUCCESS"],
             cb |-> RecordSuccess(probe.cb),
             hist |-> Assign(h, "SUCCESS"), outcome |-> "returned",
             events |-> <<TaskEvent("started", 0), TaskEvent("completed", 0)>>]
       ELSE IF node.retries < node.max_retries
       THEN [node |-> [node EXCEPT !.status = "RETRY", !.retries = @ + 1],
             cb |-> RecordFailure(probe.cb, t),
             hist |-> Assign(Assign(h, "FAILED"), "RETRY"),
             outcome |-> "raised",
             events |-> <<TaskEvent("started", 0), TaskEvent("failed", 1),
                          TaskEvent("retry", 0)>>]
       ELSE [node |-> [node EXCEPT !.status = "FAILED"],
             cb |-> RecordFailure(probe.cb, t),
             hist |-> Assign(h, "FAILED"), outcome |-> "raised",
             events |-> <<TaskEvent("started", 0), TaskEvent("failed", 1)>>]

\* COSTS["orchestration_cycle"] and the amount run passes to deduct_credits,
\* in tenths of a credit
OrchestrationCycleCost == 1
SpecializationCost == 10

\* BillingManager.deduct_credits: nothing is taken from a balance below amount
DeductCredits(balance, amount) ==
    IF balance < amount THEN balance ELSE balance - amount

\* hasattr(self, "billing_manager"): no class and no constructor of the
\* agents gives an agent this attribute
BillingAttached == FALSE

\* the finally clause of run, reached by every call that entered the try
RunFinally(balance) ==
    IF BillingAttached THEN DeductCredits(balance, SpecializationCost)
    ELSE balance

C19_RetryAgainOnceMore(attempt, max_retries) == attempt <= max_retries

\* _execute_with_retry: the attempt that raised is followed by another one
RetryAgain(attempt, max_retries) == attempt < max_retries

C18_RetriesOfAttempt(attempt) == attempt

\* _execute_with_retry: node.retries after the attempt that raised
RetriesAfter(attempt) == attempt + 1

\* the cooldown of breaker b is over at time t
Cooled(b, t) ==
    b.last_failure_time # <<>> /\ t - b.last_failure_time[1] >= b.timeout_seconds

\* _execute_node up to the first agent.run: the node becomes RUNNING
AgentExecuteNode ==
    /\ ar.pc \in {"idle", "done"}
    /\ ar.presented < MaxAgentNodes
    /\ \E maxr \in (0..MaxAgentRetries) \cup {DefaultFailureThreshold},
          req \in {{}, {"read"}} :
          \E f \in (IF req = {} THEN 0..(maxr + 1) ELSE {0}),
             rule \in (IF req = {} THEN BOOLEAN ELSE {FALSE}) :
              ar' = [ar EXCEPT !.pc = "attempt",
                               !.presented = @ + 1,
                               !.node = [AgentNode(req, maxr, f, rule)
                                             EXCEPT !.status = "RUNNING"],
                               !.scopes = {"admin"},
                               !.attempt = 0, !.runs = 0, !.body_calls = 0,
                               !.delays = 0,
                               !.hist = <<"PENDING", "RUNNING">>,
                               !.err = "none"]
    /\ UNCHANGED <<cb, rl, busVars, brokerVars, tqVars, orchVars>>

\* one turn of the loop of _execute_with_retry: agent.run and what follows
\* it, up to the sleep before the next attempt or the return of _execute_node
AgentAttempt ==
    /\ ar.pc = "attempt"
    /\ LET r == AgentRun(ar.node, ar.scopes, cb, now, ar.body_calls, ar.hist)
           called == r.outcome \in {"returned", "raised"}
           seen == [outcome |-> r.outcome, before |-> cb.state,
                    cooled |-> Cooled(cb, now), events |-> r.events]
           counted == [ar EXCEPT !.runs = @ + 1,
                                 !.body_calls = IF called THEN @ + 1 ELSE @,
                                 !.balance = IF called THEN RunFinally(@) ELSE @,
                                 !.last = seen]
       IN /\ cb' = r.cb
          /\ ar' =
               IF r.outcome = "returned"
               THEN \* _execute_node: node.status = SUCCESS, then validation
                    [counted EXCEPT !.node = [r.node EXCEPT !.status = "SUCCESS"],
                                    !.hist = Assign(r.hist, "SUCCESS"),
                                    !.pc = IF r.node.validation_rule
                                           THEN "validate" ELSE "done"]
               ELSE IF RetryAgain(ar.attempt, ar.node.max_retries)
               THEN [counted EXCEPT !.node = [r.node EXCEPT
                                                  !.retries = RetriesAfter(ar.attempt)],
                                    !.hist = r.hist,
                                    !.delays = @ + 1,
                                    !.attempt = @ + 1]
               ELSE \* raise; _execute_node: node.status = FAILED
                    [counted EXCEPT !.node = [r.node EXCEPT !.status = "FAILED"],
                                    !.hist = Assign(r.hist, "FAILED"),
                                    !.err = r.outcome,
                                    !.pc = "done"]
    /\ UNCHANGED <<rl, busVars, brokerVars, tqVars, orchVars>>

\* _execute_node: the validation agent runs on the node; its rule holds,
\* fails, or its execute raises
AgentValidate ==
    /\ ar.pc = "validate"
    /\ \E v \in {"valid", "invalid", "raised"} :
          ar' =
            IF v = "valid"
            THEN [ar EXCEPT !.pc = "done"]
            ELSE IF v = "invalid"
            THEN [ar EXCEPT !.node.status = "FAILED",
                            !.hist = Assign(@, "FAILED"),
                            !.err = "validation", !.pc = "done"]
            ELSE IF ar.node.retries < ar.node.max_retries
            THEN [ar EXCEPT !.node.status = "FAILED",
                            !.node.retries = @ + 1,
                            !.hist = Assign(Assign(Assign(@, "FAILED"),
                                                   "RETRY"), "FAILED"),
                            !.err = "validation", !.pc = "done"]
            ELSE [ar EXCEPT !.node.status = "FAILED",
                            !.hist = Assign(@, "FAILED"),
                            !.err = "validation", !.pc = "done"]
    /\ UNCHANGED <<cb, rl, busVars, brokerVars, tqVars, orchVars>>

\* time passes: a second, or one second less than the breaker's cooldown
AgentTick ==
    /\ ar.ticks < MaxTicks
    /\ \E d \in {1, cb.timeout_seconds - 1} : now' = now + d
    /\ ar' = [ar EXCEPT !.ticks = @ + 1]
    /\ UNCHANGED <<ev, subscribers, queue, event_counter, dlq, history, hq,
                   error_count, pc, cur, last, waiter, brokerVars>>
    /\ UNCHANGED <<cb, rl, tqVars, orchVars>>

AgentInit ==
    /\ BusFresh
    /\ HistoryDefault
    /\ persist = FALSE
    /\ redisUp = FALSE
    /\ subscribers = NoSubscribers
    /\ NoQueueNoGraph

AgentNext == AgentExecuteNode \/ AgentAttempt \/ AgentValidate \/ AgentTick

SpecAgent == AgentInit /\ [][AgentNext]_vars

\* C13: a CLOSED breaker opens on exactly the failure that makes
\* failure_count reach failure_threshold, neither before nor one failure
\* later, and every failure records the time as last_failure_time.
C13_OpensExactlyAtThreshold ==
    [][cb.state = "closed" =>
           /\ cb'.state = "open" <=>
                  /\ cb'.failure_count = cb.failure_count + 1
                  /\ cb'.failure_count = cb.failure_threshold
           /\ cb'.failure_count = cb.failure_count + 1 =>
                  cb'.last_failure_time = <<now>>]_vars

\* a handler failure has just opened the breaker that was CLOSED
C13_Witness ==
    /\ cb.state = "open"
    /\ ar.last.before = "closed"
    /\ ar.last.outcome = "raised"
    /\ cb.failure_count = cb.failure_threshold
    /\ cb.last_failure_time = <<now>>

\* the step is one call of agent.run
Invocation == ar.pc = "attempt" /\ ar'.runs = ar.runs + 1

\* the breaker after a probe that found the cooldown over
HalfOpened(b) == [b EXCEPT !.state = "half-open", !.consecutive_successes = 0]

Probed == ShouldAttempt(cb, now).cb

\* C15 as stated: while the breaker is HALF_OPEN, the successful call that
\* completes success_threshold consecutive successes closes it with
\* failure_count = 0, and any failed call before that opens it again with
\* a new last_failure_time.
C15_HalfOpenAnyFailureOpens ==
    [][(Invocation /\ Probed.state = "half-open") =>
           /\ ar'.last.outcome = "returned" =>
                  /\ cb'.state = "closed" <=>
                         Probed.consecutive_successes + 1
                             >= cb.success_threshold
                  /\ cb'.state = "closed" => cb'.failure_count = 0
                  /\ cb'.state # "closed" => cb'.state = "half-open"
           /\ ar'.last.outcome # "returned" =>
                  /\ cb'.state = "open"
                  /\ cb'.last_failure_time = <<now>>
                  /\ cb'.last_failure_time # cb.last_failure_time]_vars

\* C15, amended: the call opens the HALF_OPEN breaker again when the
\* handler body raised; a call refused by the permission check leaves the
\* breaker HALF_OPEN.
C15_HalfOpenBodyFailureOpens ==
    [][(Invocation /\ Probed.state = "half-open") =>
           /\ ar'.last.outcome = "returned" =>
                  /\ cb'.state = "closed" <=>
                         Probed.consecutive_successes + 1
                             >= cb.success_threshold
                  /\ cb'.state = "closed" => cb'.failure_count = 0
                  /\ cb'.state # "closed" => cb'.state = "half-open"
           /\ ar'.last.outcome = "raised" =>
                  /\ cb'.state = "open"
                  /\ cb'.last_failure_time = <<now>>
                  /\ cb'.last_failure_time # cb.last_failure_time
           /\ ar'.last.outcome \notin {"returned", "raised"} =>
                  /\ ar'.last.outcome = "permission"
                  /\ cb' = Probed]_vars

\* a successful call has just closed the breaker that was HALF_OPEN
C15_Witness ==
    /\ ar.last.before = "half-open"
    /\ ar.last.outcome = "returned"
    /\ cb.state = "closed"
    /\ cb.failure_count = 0

C17_PermissionDeniedNeverRetried ==
    (ar.pc # "idle" /\ ar.node.required_permissions \ ar.scopes # {}) =>
        /\ ar.runs <= 1
        /\ ar.delays = 0
        /\ ar.pc = "done" => ar.runs = 1

\* C18 as stated: a node whose handler raises on its first f calls and
\* returns on the next ends SUCCESS with retries = f after exactly f + 1
\* handler calls, for every f <= max_retries (taken here for the nodes
\* that have no validation rule).
C18_RetryToSuccess ==
    (/\ ar.pc = "done"
     /\ ar.node.required_permissions \ ar.scopes = {}
     /\ ~ar.node.validation_rule
     /\ ar.node.fails <= ar.node.max_retries) =>
        /\ ar.node.status = "SUCCESS"
        /\ ar.node.retries = ar.node.fails
        /\ ar.body_calls = ar.node.fails + 1

\* C18, amended: this holds when the breaker refused none of the node's
\* attempts and the validation of the output did not fail; in any case
\* the handler is called at most f + 1 times, and exactly f + 1 times when
\* the node ends SUCCESS.
C18_RetryToSuccessUnlessRefused ==
    (/\ ar.pc = "done"
     /\ ar.node.required_permissions \ ar.scopes = {}
     /\ ar.node.fails <= ar.node.max_retries) =>
        /\ ar.body_calls <= ar.node.fails + 1
        /\ ar.node.status = "SUCCESS" => ar.body_calls = ar.node.fails + 1
        /\ (ar.runs = ar.body_calls /\ ar.err # "validation") =>
               /\ ar.node.status = "SUCCESS"
               /\ ar.node.retries = ar.node.fails
               /\ ar.body_calls = ar.node.fails + 1

\* a node whose handler failed as often as the breaker's threshold (the
\* cooldown passed before the next attempt) ended SUCCESS with retries = f
C18_Witness ==
    /\ ar.pc = "done"
    /\ ar.node.fails >= cb.failure_threshold
    /\ ar.node.status = "SUCCESS"
    /\ ar.node.retries = ar.node.fails
    /\ ar.body_calls = ar.node.fails + 1

\* C19: node.retries never exceeds retry_config.max_retries, and the
\* handler body of a node is called at most max_retries + 1 times.
C19_BoundedRetries ==
    /\ ar.node.retries <= ar.node.max_retries
    /\ ar.body_calls <= ar.node.max_retries + 1
    /\ ar.runs <= ar.node.max_retries + 1

\* a node used all its retries: the handler was called max_retries + 1
\* times and raised every time
C19_Witness ==
    /\ ar.pc = "done"
    /\ ar.node.max_retries > 0
    /\ ar.node.retries = ar.node.max_retries
    /\ ar.body_calls = ar.node.max_retries + 1
    /\ ar.node.status = "FAILED"

\* C20: the status history of a node is a path PENDING -> RUNNING or
\* QUEUED -> (RETRY -> RUNNING)* -> terminal: SUCCESS and FAILED are never
\* left, and RETRY is followed by RUNNING.
C20_MonotonicStatus ==
    \A i \in 1..(Len(ar.hist) - 1) :
        /\ ar.hist[i] \notin {"SUCCESS", "FAILED"}
        /\ ar.hist[i] = "PENDING" => ar.hist[i + 1] \in {"RUNNING", "QUEUED"}
        /\ ar.hist[i] = "RETRY" => ar.hist[i + 1] = "RUNNING"
        /\ ar.hist[i] = "RUNNING" =>
               ar.hist[i + 1] \in {"RETRY", "SUCCESS", "FAILED"}

\* C21: a call of agent.run whose handler raised publishes
\* task.<node_id>.failed (priority 1) only when the node's retries were
\* exhausted; while retries remained it publishes task.<node_id>.retry and
\* no task.<node_id>.failed.
C21_FailedEventOnlyWhenExhausted ==
    [][(Invocation /\ ar'.last.outcome = "raised") =>
           LET published == Range(ar'.last.events)
           IN IF ar.node.retries < ar.node.max_retries
              THEN /\ \E e \in published : e.kind = "retry"
                   /\ \A e \in published : e.kind # "failed"
              ELSE /\ TaskEvent("failed", 1) \in published
                   /\ \A e \in published : e.kind # "retry"]_vars

\* C22: at the end of a SEQUENTIAL or PARALLEL run (one that returned its
\* result: the graph passed the tier gate) the nodes left PENDING
\* are exactly the nodes that depend, directly or through other nodes, on
\* a node that did not reach SUCCESS (or on an id that is no node); every
\* other node was handed to the handler runtime, whatever failed before it.
C22_FailureDoesNotAbortPeers ==
    (/\ mode \in {"sequential", "parallel"}
     /\ opc = "done"
     /\ final_status # "none") =>
        LET unmet == {n \in DOMAIN nodes :
                         \E d \in nodes[n].dependencies :
                             d \notin DOMAIN nodes \/ nodes[d].status # "SUCCESS"}
            RECURSIVE Dependents(_)
            Dependents(B) ==
                LET more == B \cup {n \in DOMAIN nodes :
                                       nodes[n].dependencies \cap B # {}}
                IN IF more = B THEN B ELSE Dependents(more)
        IN \A n \in DOMAIN nodes :
               /\ nodes[n].status = "PENDING" <=> n \in Dependents(unmet)
               /\ nodes[n].status # "PENDING" =>
                      nodes[n].status \in {"SUCCESS", "FAILED"}

\* a run ended with a failed node, a peer of it that succeeded after the
\* failure was recorded, and a node left PENDING behind the failed one
C22_Witness ==
    /\ mode \in {"sequential", "parallel"}
    /\ opc = "done"
    /\ nodes[2].status = "FAILED"
    /\ nodes[1].status = "SUCCESS"
    /\ nodes[3].status = "PENDING"
    /\ nodes[2].priority > nodes[1].priority

\* C23: in PARALLEL mode at most max_parallel_tasks nodes are in flight
\* (RUNNING, or RETRY between two attempts) at any time, they are nodes of
\* the current wave, and when the loop computes the next wave no node of
\* an earlier wave is still in flight.
C23_BoundedWaves ==
    mode = "parallel" =>
        LET inflight == {n \in DOMAIN nodes :
                            nodes[n].status \in {"RUNNING", "RETRY"}}
        IN /\ Cardinality(inflight) <= max_parallel_tasks
           /\ Len(exec_tasks) <= max_parallel_tasks
           /\ inflight \subseteq {exec_tasks[i].node : i \in DOMAIN exec_tasks}
           /\ opc = "loop" => inflight = {}

\* a wave of one node is running while another ready node waits for the
\* next wave
C23_Witness ==
    /\ mode = "parallel"
    /\ opc = "gather"
    /\ max_parallel_tasks = 1
    /\ Len(ready_nodes) > 1
    /\ nodes[ready_nodes[1]].status = "RUNNING"
    /\ nodes[ready_nodes[2]].status = "PENDING"

\* C24: every SEQUENTIAL or PARALLEL run terminates, whatever the graph
\* (failing nodes, dependency ids that are no node, cycles), when the
\* handler calls return or raise and max_parallel_tasks >= 1.
C24_LocalRunTerminates ==
    (mode \in {"sequential", "parallel"} /\ max_parallel_tasks >= 1)
        ~> (opc = "done")

\* a run over a graph with a dependency id that is no node and a cycle
\* has ended
C24_Witness ==
    /\ mode \in {"sequential", "parallel"}
    /\ opc = "done"
    /\ nodes[1].dependencies = {Missing}
    /\ nodes[2].dependencies = {3}
    /\ nodes[3].dependencies = {2}

\* the loop of _execute_distributed keeps running; nothing is assumed of the
\* workers, which may never pop a task or never publish a result
SpecDistLoopFair ==
    /\ SpecOrch
    /\ WF_vars(DistLoop) /\ WF_vars(DistThrottled)
    /\ WF_vars(DistProcess) /\ WF_vars(DistDispatch)

\* C25: in DISTRIBUTED mode a dispatched node does not stay RUNNING for
\* ever when no result event arrives for it: the SLA timeout marks it
\* FAILED, and the run terminates even when no worker answers.
C25_SlaTimeoutEndsRun ==
    /\ \A n \in 1..3 :
           (mode = "distributed" /\ n \in DOMAIN nodes
                /\ nodes[n].status = "RUNNING")
               ~> (n \in DOMAIN nodes /\ nodes[n].status # "RUNNING")
    /\ (mode = "distributed") ~> (opc = "done")

\* C26: a DISTRIBUTED run of a two-node graph with max_credits = 1 ends
\* with the first node SUCCESS, the second node never dispatched and still
\* PENDING, status partial_failure and exactly one error, "Cost budget
\* exceeded".
C26_BudgetExceededScenario ==
    (mode = "distributed" /\ Len(nodes) = 2 /\ max_credits = 1
         /\ opc = "done") =>
        /\ nodes[1].status = "SUCCESS"
        /\ nodes[2].status = "PENDING"
        /\ final_status = "partial_failure"
        /\ errors = <<GlobalError>>

C28_DistributedRetriesBeforeFailed ==
    \A n \in 1..3 :
        (/\ mode = "distributed"
         /\ n \in DOMAIN nodes
         /\ nodes[n].status = "FAILED"
         /\ task_results[n] = "failed") =>
            Cardinality({i \in DOMAIN wk_results :
                            /\ wk_results[i].node_id = n
                            /\ wk_results[i].status = "failed"})
                >= nodes[n].max_retries + 1

\* C29: every successful node execution takes exactly the cost of one
\* orchestration cycle from the user's credit balance, so that after k
\* successes the balance is the initial one less k times the cost.
C29_SuccessDeductsCycleCost ==
    [][(/\ ar.pc = "attempt"
        /\ ar'.runs = ar.runs + 1
        /\ ar'.last.outcome = "returned"
        /\ ar'.node.status = "SUCCESS") =>
           ar'.balance = ar.balance - OrchestrationCycleCost]_vars

\* C30: a graph with more nodes than max_nodes_per_graph of the user's
\* tier is rejected before dispatch: every node stays PENDING, nothing is
\* handed to the handler runtime or pushed to the task queue, and
\* graph.failed is published and graph.completed is not; a graph with
\* exactly the limit is accepted, and its run ends with graph.completed.
C30_TierLimitGate ==
    LET limit == IF pg.tier = "pro" THEN ProMaxNodes
                 ELSE IF pg.tier = "enterprise" THEN EnterpriseMaxNodes
                 ELSE FreeMaxNodes
    IN /\ (mode # "none" /\ Len(nodes) > limit) =>
              /\ \A n \in DOMAIN nodes :
                     nodes[n].status = "PENDING" /\ nodes[n].retries = 0
              /\ exec_tasks = <<>> /\ ready_nodes = <<>>
              /\ tq_pending = <<>> /\ tq_memory = <<>> /\ wk_results = <<>>
              /\ opc = "done"
              /\ pg.events = <<"graph.started", "graph.failed">>
       /\ (mode # "none" /\ Len(nodes) <= limit) =>
              /\ "graph.failed" \notin Range(pg.events)
              /\ opc = "done" =>
                     pg.events = <<"graph.started", "graph.completed">>

\* a graph of one node more than the free tier allows was submitted
C30_Witness ==
    /\ mode # "none"
    /\ pg.tier = "free"
    /\ Len(nodes) = FreeMaxNodes + 1
    /\ "graph.failed" \in Range(pg.events)

(***************************************************************************)
(* SecurityAgent._check_rate_limit (agents/security_agent.py): the token   *)
(* bucket of one identifier.  Tokens are counted in 1/3600 of a token, the *)
(* amount that one request per hour refills in a second, so that the       *)
(* refill of whole seconds is exact.                                       *)
(***************************************************************************)
MaxRequests == 2        \* the largest max_requests_per_hour configured
MaxRateCalls == 4       \* check_rate_limit calls in one behaviour
MaxRateTicks == 2       \* clock advances between the calls

TokenUnit == 3600       \* refill_rate = max_requests_per_hour / 3600.0

\* the bucket at time t: created full, or refilled for the time elapsed
Refilled(r, t) ==
    IF r.bucket = <<>>
    THEN [tokens |-> r.max_requests_per_hour * TokenUnit, last_refill |-> t]
    ELSE [tokens |-> Min(r.max_requests_per_hour * TokenUnit,
                         r.bucket[1].tokens
                             + (t - r.bucket[1].last_refill)
                                   * r.max_requests_per_hour),
          last_refill |-> t]

\* not (bucket["tokens"] < 1.0)
HasToken(tokens) == tokens >= TokenUnit

\* _check_rate_limit(context) at time t.  The denial computes
\* retry_after_seconds by dividing by max_requests_per_hour / 3600.0, which
\* raises ZeroDivisionError when the limit is 0.
CheckRateLimit(r, t) ==
    IF r.blocked
    THEN [r EXCEPT !.calls = @ + 1,
                   !.last = [outcome |-> "ip_blocked", before |-> 0]]
    ELSE LET b == Refilled(r, t)
         IN IF HasToken(b.tokens)
            THEN [r EXCEPT !.bucket = <<[b EXCEPT !.tokens = @ - TokenUnit]>>,
                           !.calls = @ + 1,
                           !.allowed = @ + 1,
                           !.last = [outcome |-> "allowed", before |-> b.tokens]]
            ELSE [r EXCEPT !.bucket = <<b>>,
                           !.calls = @ + 1,
                           !.last = [outcome |-> IF r.max_requests_per_hour = 0
                                                 THEN "raised"
                                                 ELSE "rate_limit_exceeded",
                                     before |-> b.tokens]]

RateCheck ==
    /\ rl.calls < MaxRateCalls
    /\ rl' = CheckRateLimit(rl, now)
    /\ UNCHANGED <<cb, ar, busVars, brokerVars, tqVars, orchVars>>

\* time passes between two calls: a second, half an hour or an hour
RateTick ==
    /\ rl.ticks < MaxRateTicks
    /\ \E d \in {1, TokenUnit \div 2, TokenUnit} : now' = now + d
    /\ rl' = [rl EXCEPT !.ticks = @ + 1]
    /\ UNCHANGED <<ev, subscribers, queue, event_counter, dlq, history, hq,
                   error_count, pc, cur, last, waiter, brokerVars>>
    /\ UNCHANGED <<cb, ar, tqVars, orchVars>>

RateInit ==
    /\ BusFresh
    /\ HistoryDefault
    /\ persist = FALSE
    /\ redisUp = FALSE
    /\ subscribers = NoSubscribers
    /\ tq_redis = FALSE /\ QueueFresh /\ OrchIdle /\ AgentFresh
    /\ rl \in {SecurityAgent(n, blocked) :
                  n \in 0..MaxRequests, blocked \in BOOLEAN}

RateNext == RateCheck \/ RateTick

SpecRate == RateInit /\ [][RateNext]_vars

\* C34: with no time elapsing between the calls, and the client's address
\* not blocked, the first max_requests_per_hour calls are allowed and each
\* takes one token (the call that finds exactly one token leaves none),
\* and every later call is denied with reason rate_limit_exceeded and
\* takes nothing.
C34_TokenBucketExact ==
    [][(rl'.calls = rl.calls + 1 /\ ~rl.blocked /\ rl.ticks = 0) =>
           IF rl.calls < rl.max_requests_per_hour
           THEN /\ rl'.last.outcome = "allowed"
                /\ rl'.last.before =
                       (rl.max_requests_per_hour - rl.calls) * TokenUnit
                /\ rl'.bucket[1].tokens = rl'.last.before - TokenUnit
           ELSE /\ rl'.last.outcome = "rate_limit_exceeded"
                /\ rl'.bucket[1].tokens = rl'.last.before
                /\ rl'.bucket[1].tokens = 0]_vars

\* C31: a process_goal call publishes graph.started once, before any node
\* of the graph changes status and before any Worker reports on a task of
\* it, and then exactly one of graph.completed and graph.failed, after
\* which no node of the graph changes status.
C31_GraphLifecycleEvents ==
    [][/\ (opc # "none" /\ nodes' # nodes) =>
              /\ pg.events = <<"graph.started">>
              /\ pg'.events \in {<<"graph.started">>,
                                 <<"graph.started", "graph.completed">>}
       /\ wk_results' # wk_results => Head(pg.events) = "graph.started"
       /\ (opc = "none" /\ opc' # "none") =>
              /\ Head(pg'.events) = "graph.started"
              /\ Tail(pg'.events) \in {<<>>, <<"graph.failed">>}
       /\ opc' = "done" =>
              pg'.events \in {<<"graph.started", "graph.completed">>,
                              <<"graph.started", "graph.failed">>}]_vars

\* a run that changed node statuses has ended and published graph.completed
C31_Witness ==
    /\ opc = "done"
    /\ pg.events = <<"graph.started", "graph.completed">>
    /\ \E n \in DOMAIN nodes : nodes[n].status = "FAILED"
    /\ \E n \in DOMAIN nodes : nodes[n].status = "SUCCESS"

\* C32: a node status change to RUNNING, SUCCESS or FAILED is followed by
\* an upsert of the graph snapshot before the next node status change: at
\* every step that changes a node's status, the stored snapshot shows the
\* status of every node that is PENDING, RUNNING, SUCCESS or FAILED.
C32_SnapshotFollowsStatus ==
    [][(/\ opc # "none"
        /\ \E n \in DOMAIN nodes : nodes'[n].status # nodes[n].status) =>
           \A n \in DOMAIN nodes :
               nodes[n].status \in {"PENDING", "RUNNING", "SUCCESS", "FAILED"} =>
                   pg.stored.nodes[n] = nodes[n].status]_vars

\* C33: in every execution mode the status of the result is "success"
\* exactly when every node ended SUCCESS, "partial_failure" exactly when
\* some but not all nodes ended SUCCESS, and "failed" exactly when none did.
C33_StatusReflectsNodes ==
    (opc = "done" /\ final_status # "none") =>
        LET succeeded == {n \in DOMAIN nodes : nodes[n].status = "SUCCESS"}
        IN /\ final_status \in {"success", "partial_failure", "failed"}
           /\ final_status = "success" <=> succeeded = DOMAIN nodes
           /\ final_status = "failed" <=> succeeded = {}
           /\ final_status = "partial_failure" <=>
                  (succeeded # {} /\ succeeded # DOMAIN nodes)

\* a distributed run ended with one node SUCCESS and another FAILED
C33_Witness ==
    /\ mode = "distributed"
    /\ opc = "done"
    /\ final_status = "partial_failure"
    /\ \E n \in DOMAIN nodes : nodes[n].status = "FAILED"

(***************************************************************************)
(* EventBus.get_history and EventBus.replay_events (core/event_bus.py) on  *)
(* the local bus.  history holds Event objects; replay_events publishes    *)
(* the object it finds in the history, not a copy.                         *)
(***************************************************************************)
MaxKept == 2        \* the largest max_history an EventBus is made with
MaxReplays == 2     \* replay_events calls in one behaviour
MaxLimit == 2       \* the largest limit passed to get_history

HistTypes == {TypeTS, TypeO}
HistTtls == {1, DefaultTtl}

\* get_history(event_type, limit): events[-limit:] of the events of the
\* type; a false event_type (None, "") selects every type, and events[-0:]
\* is the whole list
GetHistory(h, type, limit) ==
    LET events == IF type = <<>> THEN h
                  ELSE SelectSeq(h, LAMBDA o : ev[o].event_type = type)
    IN IF limit = 0 THEN events
       ELSE SubSeq(events, Max0(Len(events) - limit) + 1, Len(events))

\* the loop of replay_events over the deque: "for event in
\* self._event_history" asks the deque's iterator for element i, and the
\* iterator raises RuntimeError (deque mutated during iteration) when the
\* deque was appended to since the loop began, also when no element is left.
\* publish appends a live event to the history and an expired one to the
\* dead letter queue.
RECURSIVE ReplayWalk(_, _, _, _)
ReplayWalk(h, i, ids, st) ==
    IF st.mutated THEN [st EXCEPT !.outcome = "raised"]
    ELSE IF i > Len(h) THEN [st EXCEPT !.outcome = "returned"]
    ELSE IF ev[h[i]].event_id \notin ids THEN ReplayWalk(h, i + 1, ids, st)
    ELSE IF IsExpired(ev[h[i]], now)
    THEN ReplayWalk(h, i + 1, ids,
             [st EXCEPT !.dlq = DequeAppend(@, h[i], DeadLetterMaxLen)])
    ELSE ReplayWalk(h, i + 1, ids,
             [st EXCEPT !.mutated = TRUE,
                        !.history = DequeAppend(@, h[i], hq.max_history),
                        !.ctr = @ + 1,
                        !.queue = @ \cup {PublishEntry(ev[h[i]], st.ctr + 1, h[i])},
                        !.republished = Append(@, h[i])])

\* await bus.replay_events(ids)
ReplayEvents(ids) ==
    LET st == ReplayWalk(history, 1, ids,
                  [mutated |-> FALSE, outcome |-> "none", dlq |-> dlq,
                   history |-> history, ctr |-> event_counter,
                   queue |-> queue, republished |-> <<>>])
    IN /\ dlq' = st.dlq
       /\ history' = st.history
       /\ event_counter' = st.ctr
       /\ queue' = st.queue
       /\ hq' = [hq EXCEPT !.replays = @ + 1,
                           !.call = [op |-> "replay", outcome |-> st.outcome,
                                     returned |-> st.republished,
                                     arg |-> ids, before |-> history]]
       /\ UNCHANGED <<now, ev, subscribers, error_count, pc, cur, last, waiter,
                      brokerVars, tqVars, orchVars, agentVars>>

HistReplay ==
    /\ hq.replays < MaxReplays
    /\ \E ids \in SUBSET {ev[o].event_id : o \in 1..Len(ev)} :
          ids # {} /\ ReplayEvents(ids)

HistGetHistory ==
    /\ \E type \in HistTypes \cup {<<>>}, limit \in 0..MaxLimit :
          hq' = [hq EXCEPT !.call = [op |-> "get_history",
                                     outcome |-> "returned",
                                     returned |-> GetHistory(history, type, limit),
                                     arg |-> <<type, limit>>,
                                     before |-> history]]
    /\ UNCHANGED <<now, ev, subscribers, queue, event_counter, dlq, history,
                   error_count, pc, cur, last, waiter, brokerVars, tqVars,
                   orchVars, agentVars>>

HistPublish ==
    \E t \in HistTypes, ttl \in HistTtls :
        /\ Len(ev) < MaxEvents
        /\ PublishNew(Event(Len(ev) + 1, t, 0, now, ttl, 0, None, None, NoAck))

HistInit ==
    /\ BusFresh
    /\ NoQueueNoGraph
    /\ persist = FALSE
    /\ redisUp = FALSE
    /\ subscribers = NoSubscribers
    /\ hq \in {[max_history |-> k, call |-> NoHistoryCall, replays |-> 0] :
                  k \in 1..MaxKept}

HistNext == HistPublish \/ Tick \/ HistReplay \/ HistGetHistory

SpecHistory == HistInit /\ [][HistNext]_vars

\* C35: replay_events(ids) returns normally, and it has republished every
\* event of the history whose event_id is in ids exactly once.
C35_ReplayRepublishesEach ==
    hq.call.op = "replay" =>
        /\ hq.call.outcome = "returned"
        /\ \A o \in 1..Len(ev) :
               (ev[o].event_id \in hq.call.arg /\ Count(hq.call.before, o) > 0) =>
                   Count(hq.call.returned, o) = 1

\* C36: the history never holds more than max_history events, and
\* get_history(event_type, limit) with limit >= 0 returns at most limit
\* events: the last ones of the requested type, in publish order.
C36_BoundedHistoryAndLimit ==
    /\ Len(history) <= hq.max_history
    /\ hq.call.op = "get_history" =>
           LET type == hq.call.arg[1]
               limit == hq.call.arg[2]
               ofType == {i \in 1..Len(hq.call.before) :
                             type = <<>> \/ ev[hq.call.before[i]].event_type = type}
               got == hq.call.returned
           IN /\ Len(got) <= limit
              /\ Len(got) = IF Cardinality(ofType) < limit
                            THEN Cardinality(ofType) ELSE limit
              /\ \E from \in 1..(Len(hq.call.before) + 1) :
                     got = SelectSeq(
                               SubSeq(hq.call.before, from, Len(hq.call.before)),
                               LAMBDA o : type = <<>> \/ ev[o].event_type = type)

\* C37: in DISTRIBUTED mode the credits charged, one per dispatched node,
\* never exceed max_credits, and once the budget is reached no further node
\* is charged or set RUNNING, also within one pass over the ready nodes.
C37_CreditsWithinBudget ==
    [][/\ mode' = "distributed" => total_credits_used' <= max_credits'
       /\ (mode = "distributed" /\ opc = "dispatch"
              /\ total_credits_used >= max_credits) =>
             (total_credits_used' = total_credits_used /\ nodes' = nodes)]_vars

\* C38: in DISTRIBUTED mode a node whose result has been applied is not
\* touched again: a SUCCESS node keeps its status, the errors list never
\* gains an entry for a node that is already SUCCESS or FAILED, and no node
\* has more than one entry in the errors list.
C38_OneResultPerNode ==
    [][mode = "distributed" /\ mode' = "distributed" /\ opc # "done" =>
          \A n \in DOMAIN nodes :
              /\ nodes[n].status = "SUCCESS" => nodes'[n].status = "SUCCESS"
              /\ nodes[n].status \in {"SUCCESS", "FAILED"} =>
                     Count(errors', n) = Count(errors, n)
              /\ Count(errors', n) <= 1]_vars

\* C39: when process_goal returns with a result, in every mode the graph's
\* status is SUCCESS if every node is SUCCESS and FAILED otherwise, and the
\* snapshot stored last carries that status and the nodes' statuses.
C39_GraphStatusSet ==
    (opc = "done" /\ final_status # "none") =>
        /\ pg.status = IF \A n \in DOMAIN nodes : nodes[n].status = "SUCCESS"
                       THEN "SUCCESS" ELSE "FAILED"
        /\ pg.stored.status = pg.status
        /\ pg.stored.nodes = [n \in DOMAIN nodes |-> nodes[n].status]

\* C40: in DISTRIBUTED mode every step that puts a task on the Task Queue
\* puts a node that was PENDING and is RUNNING afterwards, and that is
\* neither waiting in the queue nor was popped from it before: no node is
\* pushed twice in a run, whatever the order of workers, results and rounds.
C40_PushedAtMostOnce ==
    [][(/\ mode = "distributed"
        /\ \/ Len(tq_pending') > Len(tq_pending)
           \/ Len(tq_memory') > Len(tq_memory)) =>
          LET p == IF tq_redis THEN Head(tq_pending')
                   ELSE tq_memory'[Len(tq_memory')]
          IN /\ p \notin Range(tq_pending) \cup Range(tq_memory) \cup tq_obs.popped
             /\ nodes[p].status = "PENDING"
             /\ nodes'[p].status = "RUNNING"]_vars

\* a distributed run over three nodes that were all pushed and popped, one
\* of them failed, has ended
C40_Witness ==
    /\ mode = "distributed"
    /\ opc = "done"
    /\ tq_obs.popped = DOMAIN nodes
    /\ Len(nodes) = 3
    /\ \E n \in DOMAIN nodes : nodes[n].status = "FAILED"
    /\ \E n \in DOMAIN nodes : nodes[n].status = "SUCCESS"

====
